---- MODULE Spec2Model ----
(***************************************************************************)
(* The Avalon game engine (avalon/game.py, avalon/models.py) as a state    *)
(* machine: one GameState behind GameEngine, the event store it appends    *)
(* to, and one action per public operation (create_game, start_game and    *)
(* each apply_action branch).                                              *)
(***************************************************************************)
EXTENDS Integers, Sequences, FiniteSets, Bags, TLC

VARIABLES
    state,      \* GameEngine._state: a GameState record, or NoState
    store,      \* EventStore contents: the bag of event types appended
    scenario,   \* which family of caller inputs this run explores (never changes)
    faults,     \* how many appends to the event store have raised so far
    lock,       \* GameEngine._lock: the task holding it, or None
    tasks       \* the concurrent callers: where each is in its call

vars == <<state, store, scenario, faults, lock, tasks>>

----------------------------------------------------------------------------
(* Bounds of the exploration.  The callers' inputs are explored in seven   *)
(* families (scenarios), each with its own bounds:                         *)
(*   "flow"   - whole games with either quest vote, few rejected proposals *)
(*   "hammer" - games whose proposals are rejected up to the hammer        *)
(*   "talk"   - games with chat messages and repeated votes                *)
(*   "tie"    - six players, ballots that can split three to three         *)
(*   "seven"  - seven players, every ballot approved, either quest vote    *)
(*   "roles"  - explicit role lists (all special roles; a repeated role),  *)
(*              every deal by rotation, ballots approved, quests succeed   *)
(*   "small"  - two players with the explicit role list [Merlin, Assassin] *)

\* Rejected proposals per game in the "flow" and "talk" scenarios.
MaxRejects == 1
\* Rejected proposals per game in the "hammer" scenario.
MaxHammerRejects == 5
\* Accepted chat messages per game ("talk").
MaxChat == 1
\* Votes that overwrite an earlier vote of the same player, per game ("talk").
MaxRevotes == 1
\* Appends to the event store that raise, per run ("faulty").
MaxFaults == 1
\* The largest player count team_size is looked up for.
MaxCount == 12

----------------------------------------------------------------------------
(* models.py: enums and optional values.                                   *)

None == "None"
NoQuest == -1

Merlin == "Merlin"
Percival == "Percival"
LoyalServant == "Loyal Servant"
Assassin == "Assassin"
Morgana == "Morgana"
Mordred == "Mordred"
Oberon == "Oberon"
Minion == "Minion of Mordred"

Role == {Merlin, Percival, LoyalServant, Assassin, Morgana, Mordred, Oberon, Minion}

Phase == {"lobby", "team_proposal", "team_vote", "quest", "quest_result",
          "lady_of_lake", "assassination", "game_over"}

Alignment == {"loyal", "evil"}

----------------------------------------------------------------------------
(* game.py: the role / alignment catalog.                                  *)

EVIL_ROLES == {Assassin, Morgana, Mordred, Oberon, Minion}

\* Mutant: the third quest of six players takes three.
QUEST_TEAM_SIZES_six_three ==
    [pc \in 5..10 |->
        CASE pc = 5 -> <<2, 3, 2, 3, 3>>
          [] pc = 6 -> <<2, 3, 3, 3, 4>>
          [] pc = 7 -> <<2, 3, 3, 4, 4>>
          [] OTHER  -> <<3, 4, 4, 5, 5>>]

QUEST_TEAM_SIZES ==
    [pc \in 5..10 |->
        CASE pc = 5 -> <<2, 3, 2, 3, 3>>
          [] pc = 6 -> <<2, 3, 4, 3, 4>>
          [] pc = 7 -> <<2, 3, 3, 4, 4>>
          [] OTHER  -> <<3, 4, 4, 5, 5>>]

DEFAULT_ROLE_SETS ==
    [pc \in 5..10 |->
        CASE pc = 5 -> <<Merlin, Percival, LoyalServant, Assassin, Minion>>
          [] pc = 6 -> <<Merlin, Percival, LoyalServant, LoyalServant, Assassin, Morgana>>
          [] pc = 7 -> <<Merlin, Percival, LoyalServant, LoyalServant, Assassin, Morgana,
                         Minion>>
          [] pc = 8 -> <<Merlin, Percival, LoyalServant, LoyalServant, Assassin, Morgana,
                         Mordred, Minion>>
          [] pc = 9 -> <<Merlin, Percival, LoyalServant, LoyalServant, LoyalServant,
                         Assassin, Morgana, Mordred, Minion>>
          [] OTHER  -> <<Merlin, Percival, LoyalServant, LoyalServant, LoyalServant,
                         Assassin, Morgana, Mordred, Oberon, Minion>>]

\* Mutant: every role counts as evil.
alignment_for_evil(role) == "evil"

alignment_for(role) == IF role \in EVIL_ROLES THEN "evil" ELSE "loyal"

\* Mutant: one sabotage fails every quest.
requires_two_fails_never(player_count, quest_number) == FALSE

requires_two_fails(player_count, quest_number) ==
    player_count >= 7 /\ quest_number = 4

\* team_size raises ValueError for a player count outside the table.
team_size_supported(player_count) == player_count \in DOMAIN QUEST_TEAM_SIZES

team_size(player_count, quest_number) ==
    QUEST_TEAM_SIZES[player_count][quest_number]

\* A call of team_size with any arguments: the value returned or the
\* exception raised.  sizes[quest_number - 1] is a Python list index: -1 to -5
\* count from the end, anything else outside 0..4 raises IndexError.
team_size_call(player_count, quest_number) ==
    IF ~team_size_supported(player_count)
    THEN [value |-> 0, err |-> "Unsupported player count"]
    ELSE LET sizes == QUEST_TEAM_SIZES[player_count]
             index == quest_number - 1
         IN  IF index \in 0..(Len(sizes) - 1)
             THEN [value |-> sizes[index + 1], err |-> None]
             ELSE IF index \in (0 - Len(sizes))..(0 - 1)
             THEN [value |-> sizes[Len(sizes) + index + 1], err |-> None]
             ELSE [value |-> 0, err |-> "IndexError"]

----------------------------------------------------------------------------
(* Python values carried by an action payload (a dict).                    *)

VNone == [tag |-> "none"]
VBool(b) == [tag |-> "bool", b |-> b]
VStr(s) == [tag |-> "str", s |-> s]
VList(items) == [tag |-> "list", items |-> items]

\* Python truthiness of a payload value.
Truthy(v) ==
    CASE v.tag = "none" -> FALSE
      [] v.tag = "bool" -> v.b
      [] v.tag = "str"  -> v.s # ""
      [] v.tag = "list" -> v.items # <<>>

EmptyDict == <<>>
Dict1(k, v) == [x \in {k} |-> v]

\* dict.get(key, default)
Get(payload, k, default) == IF k \in DOMAIN payload THEN payload[k] ELSE default

\* d[k] = v on a dict
DictSet(d, k, v) == [x \in (DOMAIN d) \cup {k} |-> IF x = k THEN v ELSE d[x]]

SeqToSet(q) == {q[i] : i \in 1..Len(q)}

----------------------------------------------------------------------------
(* models.py: Player, GameConfig, GameState; the event store.              *)

NoState == [phase |-> "no_game"]

Player(id, is_bot) == [id |-> id, is_bot |-> is_bot, role |-> None]

GameConfig(player_count, roles, hammer, lady) ==
    [player_count |-> player_count, roles |-> roles,
     hammer_auto_approve |-> hammer, lady_of_lake |-> lady]

GameState(config, players) ==
    [config |-> config,
     players |-> players,
     started |-> FALSE,
     phase |-> "lobby",
     leader_index |-> 0,
     quest_number |-> 1,
     proposal_attempts |-> 0,
     proposed_team |-> <<>>,
     team_votes |-> EmptyDict,
     quest_votes |-> EmptyDict,
     quest_history |-> <<>>,
     success_count |-> 0,
     fail_count |-> 0,
     winner |-> None,
     assassin_target |-> None,
     chat |-> <<>>,
     lady_holder_id |-> None,
     lady_last_used_quest |-> NoQuest,
     lady_history |-> <<>>]

QuestRecord(quest_number, team, fails, succeeded) ==
    [quest_number |-> quest_number, team |-> team, fails |-> fails,
     succeeded |-> succeeded]

\* GameEngine._emit: one Event appended to the store.
emit(st, event_type) == st (+) SetToBag({event_type})

\* The result of a call: the state and store it leaves, and the exception raised
\* (None when the call returns).
Result(s, st, err) == [state |-> s, store |-> st, err |-> err]

PlayerIds(s) == {s.players[i].id : i \in 1..Len(s.players)}

has_player(s, player_id) == \E i \in 1..Len(s.players) : s.players[i].id = player_id

get_player(s, player_id) ==
    s.players[CHOOSE i \in 1..Len(s.players) : s.players[i].id = player_id]

----------------------------------------------------------------------------
(* game.py: GameEngine.create_game, start_game.                            *)

\* Mutant: the hammer falls one rejection later.
HammerThresholdLate == 4 + 1

\* state.proposal_attempts >= 4 (line 245).
HammerThreshold == 4

\* req.roles or DEFAULT_ROLE_SETS.get(player_count): <<>> stands for None / [].
roles_or_default(req) ==
    IF req.roles # <<>> THEN req.roles
    ELSE IF Len(req.players) \in DOMAIN DEFAULT_ROLE_SETS
         THEN DEFAULT_ROLE_SETS[Len(req.players)]
         ELSE <<>>

\* Mutant: the log is cleared before the request is checked.
create_game_clears_first(s, st, req) ==
    LET player_count == Len(req.players)
        roles == roles_or_default(req)
        config == GameConfig(player_count, roles, req.hammer_auto_approve,
                             req.lady_of_lake)
    IN  IF roles = <<>>
        THEN Result(s, EmptyBag, "Unsupported player count or roles not provided")
        ELSE IF Len(roles) # player_count
        THEN Result(s, EmptyBag, "Role count must match player count")
        ELSE IF Morgana \in SeqToSet(roles) /\ Percival \notin SeqToSet(roles)
        THEN Result(s, EmptyBag, "Morgana requires Percival")
        ELSE IF Merlin \notin SeqToSet(roles) \/ Assassin \notin SeqToSet(roles)
        THEN Result(s, EmptyBag, "Merlin and Assassin are required roles")
        ELSE Result(GameState(config, req.players),
                    emit(EmptyBag, "game_created"), None)

\* Mutant: the previous game's events stay in the log.
create_game_keeps_log(s, st, req) ==
    LET player_count == Len(req.players)
        roles == roles_or_default(req)
        config == GameConfig(player_count, roles, req.hammer_auto_approve,
                             req.lady_of_lake)
    IN  IF roles = <<>>
        THEN Result(s, st, "Unsupported player count or roles not provided")
        ELSE IF Len(roles) # player_count
        THEN Result(s, st, "Role count must match player count")
        ELSE IF Morgana \in SeqToSet(roles) /\ Percival \notin SeqToSet(roles)
        THEN Result(s, st, "Morgana requires Percival")
        ELSE IF Merlin \notin SeqToSet(roles) \/ Assassin \notin SeqToSet(roles)
        THEN Result(s, st, "Merlin and Assassin are required roles")
        ELSE Result(GameState(config, req.players),
                    emit(st, "game_created"), None)

create_game(s, st, req) ==
    LET player_count == Len(req.players)
        roles == roles_or_default(req)
        config == GameConfig(player_count, roles, req.hammer_auto_approve,
                             req.lady_of_lake)
    IN  IF roles = <<>>
        THEN Result(s, st, "Unsupported player count or roles not provided")
        ELSE IF Len(roles) # player_count
        THEN Result(s, st, "Role count must match player count")
        ELSE IF Morgana \in SeqToSet(roles) /\ Percival \notin SeqToSet(roles)
        THEN Result(s, st, "Morgana requires Percival")
        ELSE IF Merlin \notin SeqToSet(roles) \/ Assassin \notin SeqToSet(roles)
        THEN Result(s, st, "Merlin and Assassin are required roles")
        ELSE Result(GameState(config, req.players),
                    emit(EmptyBag, "game_created"), None)

\* _assign_roles: zip(players, shuffled roles); deal is the shuffled list.
assign_roles(s, deal) ==
    [s EXCEPT !.players =
        [i \in 1..Len(s.players) |->
            IF i <= Len(deal) THEN [s.players[i] EXCEPT !.role = deal[i]]
            ELSE s.players[i]]]

\* Mutant: a started game is started again.
start_game_again(s, st, deal) ==
    IF s = NoState THEN Result(s, st, "Game not created")
    ELSE LET s1 == assign_roles(s, deal)
             s2 == [s1 EXCEPT !.started = TRUE,
                              !.phase = "team_proposal",
                              !.leader_index = 0,
                              !.quest_number = 1,
                              !.proposal_attempts = 0,
                              !.lady_holder_id =
                                  IF s1.config.lady_of_lake THEN s1.players[1].id
                                  ELSE None,
                              !.lady_last_used_quest = NoQuest,
                              !.lady_history = <<>>]
         IN  Result(s2, emit(st, "game_started"), None)

start_game(s, st, deal) ==
    IF s = NoState THEN Result(s, st, "Game not created")
    ELSE IF s.started THEN Result(s, st, None)
    ELSE LET s1 == assign_roles(s, deal)
             s2 == [s1 EXCEPT !.started = TRUE,
                              !.phase = "team_proposal",
                              !.leader_index = 0,
                              !.quest_number = 1,
                              !.proposal_attempts = 0,
                              !.lady_holder_id =
                                  IF s1.config.lady_of_lake THEN s1.players[1].id
                                  ELSE None,
                              !.lady_last_used_quest = NoQuest,
                              !.lady_history = <<>>]
         IN  Result(s2, emit(st, "game_started"), None)

----------------------------------------------------------------------------
(* game.py: the apply_action handlers.                                     *)

\* Mutant: anybody may propose.
is_leader_any(s, player) == TRUE

\* player.id != leader.id, negated (lines 228-229).
is_leader(s, player) == player.id = s.players[s.leader_index + 1].id

\* Mutant: the hammered proposal appends no event of its own.
handle_propose_one_event(s, st, player, payload) ==
    LET team == Get(payload, "team", VList(<<>>))
    IN  IF s.phase # "team_proposal"
        THEN Result(s, st, "Not in team proposal phase")
        ELSE IF ~is_leader(s, player)
        THEN Result(s, st, "Only leader can propose")
        ELSE IF team.tag # "list"
        THEN Result(s, st, "Team must be list of player IDs")
        ELSE IF ~team_size_supported(s.config.player_count)
        THEN Result(s, st, "Unsupported player count")
        ELSE IF s.quest_number \notin DOMAIN QUEST_TEAM_SIZES[s.config.player_count]
        THEN Result(s, st, "IndexError")
        ELSE IF Len(team.items) # team_size(s.config.player_count, s.quest_number)
        THEN Result(s, st, "Invalid team size")
        ELSE IF Cardinality(SeqToSet(team.items)) # Len(team.items)
        THEN Result(s, st, "Team has duplicates")
        ELSE IF ~(\A i \in 1..Len(team.items) : has_player(s, team.items[i]))
        THEN Result(s, st, "Unknown player in team")
        ELSE LET s1 == [s EXCEPT !.proposed_team = team.items,
                                 !.team_votes = EmptyDict]
                 st1 == emit(st, "team_proposed")
             IN  IF s1.config.hammer_auto_approve
                    /\ s1.proposal_attempts >= HammerThreshold
                 THEN Result([s1 EXCEPT !.phase = "quest"],
                             st1, None)
                 ELSE Result([s1 EXCEPT !.phase = "team_vote"], st1, None)

handle_propose(s, st, player, payload) ==
    LET team == Get(payload, "team", VList(<<>>))
    IN  IF s.phase # "team_proposal"
        THEN Result(s, st, "Not in team proposal phase")
        ELSE IF ~is_leader(s, player)
        THEN Result(s, st, "Only leader can propose")
        ELSE IF team.tag # "list"
        THEN Result(s, st, "Team must be list of player IDs")
        ELSE IF ~team_size_supported(s.config.player_count)
        THEN Result(s, st, "Unsupported player count")
        ELSE IF s.quest_number \notin DOMAIN QUEST_TEAM_SIZES[s.config.player_count]
        THEN Result(s, st, "IndexError")
        ELSE IF Len(team.items) # team_size(s.config.player_count, s.quest_number)
        THEN Result(s, st, "Invalid team size")
        ELSE IF Cardinality(SeqToSet(team.items)) # Len(team.items)
        THEN Result(s, st, "Team has duplicates")
        ELSE IF ~(\A i \in 1..Len(team.items) : has_player(s, team.items[i]))
        THEN Result(s, st, "Unknown player in team")
        ELSE LET s1 == [s EXCEPT !.proposed_team = team.items,
                                 !.team_votes = EmptyDict]
                 st1 == emit(st, "team_proposed")
             IN  IF s1.config.hammer_auto_approve
                    /\ s1.proposal_attempts >= HammerThreshold
                 THEN Result([s1 EXCEPT !.phase = "quest"],
                             emit(st1, "team_hammered"), None)
                 ELSE Result([s1 EXCEPT !.phase = "team_vote"], st1, None)

\* Mutant: the leader index advances without wrapping.
reject_proposal_nowrap(s) ==
    [s EXCEPT !.proposal_attempts = @ + 1,
              !.proposed_team = <<>>,
              !.team_votes = EmptyDict,
              !.phase = "team_proposal",
              !.leader_index = @ + 1]

\* Mutant: the rejection is not counted.
reject_proposal_uncounted(s) ==
    [s EXCEPT !.proposed_team = <<>>,
              !.team_votes = EmptyDict,
              !.phase = "team_proposal",
              !.leader_index = (@ + 1) % Len(s.players)]

\* Mutant: the votes of the rejected proposal are kept.
reject_proposal_keep_votes(s) ==
    [s EXCEPT !.proposal_attempts = @ + 1,
              !.proposed_team = <<>>,
              !.phase = "team_proposal",
              !.leader_index = (@ + 1) % Len(s.players)]

\* The rejected branch of _handle_vote (lines 270-274).
reject_proposal(s) ==
    [s EXCEPT !.proposal_attempts = @ + 1,
              !.proposed_team = <<>>,
              !.team_votes = EmptyDict,
              !.phase = "team_proposal",
              !.leader_index = (@ + 1) % Len(s.players)]

\* Mutant: a tie approves the team.
handle_vote_tie_approves(s, st, player, payload) ==
    LET approve == Get(payload, "approve", VNone)
    IN  IF s.phase # "team_vote"
        THEN Result(s, st, "Not in team vote phase")
        ELSE IF approve.tag # "bool"
        THEN Result(s, st, "Approve must be boolean")
        ELSE LET s1 == [s EXCEPT !.team_votes = DictSet(@, player.id, approve.b)]
                 st1 == emit(st, "team_vote")
                 approvals == Cardinality({k \in DOMAIN s1.team_votes : s1.team_votes[k]})
                 rejects == Len(s1.players) - approvals
             IN  IF Cardinality(DOMAIN s1.team_votes) < Len(s1.players)
                 THEN Result(s1, st1, None)
                 ELSE IF approvals >= rejects
                 THEN Result([s1 EXCEPT !.phase = "quest",
                                        !.proposal_attempts = 0],
                             emit(st1, "team_approved"), None)
                 ELSE Result(reject_proposal(s1), emit(st1, "team_rejected"), None)

handle_vote(s, st, player, payload) ==
    LET approve == Get(payload, "approve", VNone)
    IN  IF s.phase # "team_vote"
        THEN Result(s, st, "Not in team vote phase")
        ELSE IF approve.tag # "bool"
        THEN Result(s, st, "Approve must be boolean")
        ELSE LET s1 == [s EXCEPT !.team_votes = DictSet(@, player.id, approve.b)]
                 st1 == emit(st, "team_vote")
                 approvals == Cardinality({k \in DOMAIN s1.team_votes : s1.team_votes[k]})
                 rejects == Len(s1.players) - approvals
             IN  IF Cardinality(DOMAIN s1.team_votes) < Len(s1.players)
                 THEN Result(s1, st1, None)
                 ELSE IF approvals > rejects
                 THEN Result([s1 EXCEPT !.phase = "quest",
                                        !.proposal_attempts = 0],
                             emit(st1, "team_approved"), None)
                 ELSE Result(reject_proposal(s1), emit(st1, "team_rejected"), None)

\* Mutant: the quest votes survive the quest.
clear_round_keep_quest_votes(s) ==
    [s EXCEPT !.proposed_team = <<>>,
              !.team_votes = EmptyDict]

\* The proposal and both vote maps are cleared once a quest resolves
\* (lines 313-315).
clear_round(s) ==
    [s EXCEPT !.proposed_team = <<>>,
              !.team_votes = EmptyDict,
              !.quest_votes = EmptyDict]

\* Mutant: off by one.
evil_has_won_late(s) == s.fail_count > 3

\* state.fail_count >= 3 (line 324).
evil_has_won(s) == s.fail_count >= 3

\* Mutant: whoever wins, the loyal side is declared.
declare_winner_loyal(s, alignment) ==
    [s EXCEPT !.phase = "game_over", !.winner = "loyal"]

\* Mutant: the phase ends the game but no winner is recorded.
declare_winner_phase_only(s, alignment) ==
    [s EXCEPT !.phase = "game_over"]

\* The game ends with a winner (lines 321-322, 325-326).
declare_winner(s, alignment) ==
    [s EXCEPT !.phase = "game_over", !.winner = alignment]

\* Mutant: the interlude is skipped in the round after it was used.
next_round_phase_alternate(s) ==
    IF s.config.lady_of_lake
       /\ s.quest_number >= 3
       /\ s.lady_last_used_quest # s.quest_number - 2
    THEN "lady_of_lake"
    ELSE "team_proposal"

\* Mutant: a resolved quest parks the game in the unused quest_result phase.
next_round_phase_result(s) ==
    IF s.config.lady_of_lake
       /\ s.quest_number >= 3
       /\ s.lady_last_used_quest # s.quest_number - 1
    THEN "lady_of_lake"
    ELSE "quest_result"

\* The phase a new round opens in (lines 332-339).
next_round_phase(s) ==
    IF s.config.lady_of_lake
       /\ s.quest_number >= 3
       /\ s.lady_last_used_quest # s.quest_number - 1
    THEN "lady_of_lake"
    ELSE "team_proposal"

\* Mutant: the third success wins at once, Merlin or no Merlin.
quest_advance_no_assassination(s, st) ==
    LET s1 == clear_round(s)
    IN  IF s1.success_count >= 3
        THEN Result(declare_winner(s1, "loyal"), st, None)
        ELSE IF evil_has_won(s1)
        THEN Result(declare_winner(s1, "evil"), st, None)
        ELSE LET s2 == [s1 EXCEPT !.quest_number = @ + 1,
                                  !.leader_index = (@ + 1) % Len(s1.players),
                                  !.proposal_attempts = 0]
             IN  Result([s2 EXCEPT !.phase = next_round_phase(s2)], st, None)

\* Mutant: the round number moves on before the game-ending branches.
quest_advance_always_next(s, st) ==
    LET s1 == [clear_round(s) EXCEPT !.quest_number = @ + 1]
    IN  IF s1.success_count >= 3
        THEN IF \E i \in 1..Len(s1.players) : s1.players[i].role = Merlin
             THEN Result([s1 EXCEPT !.phase = "assassination"], st, None)
             ELSE Result(declare_winner(s1, "loyal"), st, None)
        ELSE IF evil_has_won(s1)
        THEN Result(declare_winner(s1, "evil"), st, None)
        ELSE LET s2 == [s1 EXCEPT !.leader_index = (@ + 1) % Len(s1.players),
                                  !.proposal_attempts = 0]
             IN  Result([s2 EXCEPT !.phase = next_round_phase(s2)], st, None)

\* The part of _handle_quest_vote after the counts are updated (lines 313-340).
quest_advance(s, st) ==
    LET s1 == clear_round(s)
    IN  IF s1.success_count >= 3
        THEN IF \E i \in 1..Len(s1.players) : s1.players[i].role = Merlin
             THEN Result([s1 EXCEPT !.phase = "assassination"], st, None)
             ELSE Result(declare_winner(s1, "loyal"), st, None)
        ELSE IF evil_has_won(s1)
        THEN Result(declare_winner(s1, "evil"), st, None)
        ELSE LET s2 == [s1 EXCEPT !.quest_number = @ + 1,
                                  !.leader_index = (@ + 1) % Len(s1.players),
                                  !.proposal_attempts = 0]
             IN  Result([s2 EXCEPT !.phase = next_round_phase(s2)], st, None)

handle_quest_vote(s, st, player, payload) ==
    LET success == Get(payload, "success", VNone)
    IN  IF s.phase # "quest"
        THEN Result(s, st, "Not in quest phase")
        ELSE IF player.id \notin SeqToSet(s.proposed_team)
        THEN Result(s, st, "Only team members vote on quest")
        ELSE IF success.tag # "bool"
        THEN Result(s, st, "Success must be boolean")
        ELSE IF player.role # None /\ alignment_for(player.role) = "loyal"
                /\ ~success.b
        THEN Result(s, st, "Loyal players must submit success")
        ELSE LET s1 == [s EXCEPT !.quest_votes = DictSet(@, player.id, success.b)]
                 st1 == emit(st, "quest_vote")
                 fails == Cardinality({k \in DOMAIN s1.quest_votes :
                                          ~s1.quest_votes[k]})
                 needed == IF requires_two_fails(s1.config.player_count,
                                                 s1.quest_number)
                           THEN 2 ELSE 1
                 succeeded == fails < needed
                 s2 == [s1 EXCEPT !.quest_history =
                                      Append(@, QuestRecord(s1.quest_number,
                                                            s1.proposed_team,
                                                            fails, succeeded)),
                                  !.success_count =
                                      IF succeeded THEN @ + 1 ELSE @,
                                  !.fail_count =
                                      IF succeeded THEN @ ELSE @ + 1]
             IN  IF Cardinality(DOMAIN s1.quest_votes) < Len(s1.proposed_team)
                 THEN Result(s1, st1, None)
                 ELSE quest_advance(s2, emit(st1, "quest_resolved"))

\* Mutant: the holder keeps the ability.
handle_lady_keep_holder(s, st, player, payload) ==
    LET target_id == Get(payload, "target_id", VNone)
    IN  IF s.phase # "lady_of_lake"
        THEN Result(s, st, "Not in Lady of the Lake phase")
        ELSE IF ~s.config.lady_of_lake
        THEN Result(s, st, "Lady of the Lake is disabled")
        ELSE IF s.lady_holder_id # player.id
        THEN Result(s, st, "Only the Lady holder may act")
        ELSE IF ~Truthy(target_id) \/ ~has_player(s, target_id.s)
        THEN Result(s, st, "Valid target_id required")
        ELSE IF target_id.s = player.id
        THEN Result(s, st, "Cannot target yourself")
        ELSE LET target == get_player(s, target_id.s)
                 alignment == IF target.role # None
                              THEN alignment_for(target.role) ELSE "unknown"
             IN  Result([s EXCEPT !.lady_history =
                                      Append(@, [holder_id |-> player.id,
                                                 target_id |-> target_id.s,
                                                 alignment |-> alignment]),
                                  !.lady_last_used_quest = s.quest_number - 1,
                                  !.phase = "team_proposal"],
                        emit(st, "lady_peek"), None)

handle_lady(s, st, player, payload) ==
    LET target_id == Get(payload, "target_id", VNone)
    IN  IF s.phase # "lady_of_lake"
        THEN Result(s, st, "Not in Lady of the Lake phase")
        ELSE IF ~s.config.lady_of_lake
        THEN Result(s, st, "Lady of the Lake is disabled")
        ELSE IF s.lady_holder_id # player.id
        THEN Result(s, st, "Only the Lady holder may act")
        ELSE IF ~Truthy(target_id) \/ ~has_player(s, target_id.s)
        THEN Result(s, st, "Valid target_id required")
        ELSE IF target_id.s = player.id
        THEN Result(s, st, "Cannot target yourself")
        ELSE LET target == get_player(s, target_id.s)
                 alignment == IF target.role # None
                              THEN alignment_for(target.role) ELSE "unknown"
             IN  Result([s EXCEPT !.lady_history =
                                      Append(@, [holder_id |-> player.id,
                                                 target_id |-> target_id.s,
                                                 alignment |-> alignment]),
                                  !.lady_holder_id = target_id.s,
                                  !.lady_last_used_quest = s.quest_number - 1,
                                  !.phase = "team_proposal"],
                        emit(st, "lady_peek"), None)

\* Mutant: any loyal target counts as a hit.
handle_assassinate_any_loyal(s, st, player, payload) ==
    LET target_id == Get(payload, "target_id", VNone)
    IN  IF s.phase # "assassination"
        THEN Result(s, st, "Not in assassination phase")
        ELSE IF player.role # Assassin
        THEN Result(s, st, "Only assassin can act")
        ELSE IF ~Truthy(target_id) \/ ~has_player(s, target_id.s)
        THEN Result(s, st, "Valid target_id required")
        ELSE LET target == get_player(s, target_id.s)
             IN  Result([s EXCEPT !.assassin_target = target_id.s,
                                  !.winner = IF target.role \notin EVIL_ROLES
                                             THEN "evil" ELSE "loyal",
                                  !.phase = "game_over"],
                        emit(st, "assassination"), None)

\* Mutant: the Assassin may name a target again once the game is over.
handle_assassinate_again(s, st, player, payload) ==
    LET target_id == Get(payload, "target_id", VNone)
    IN  IF s.phase \notin {"assassination", "game_over"}
        THEN Result(s, st, "Not in assassination phase")
        ELSE IF player.role # Assassin
        THEN Result(s, st, "Only assassin can act")
        ELSE IF ~Truthy(target_id) \/ ~has_player(s, target_id.s)
        THEN Result(s, st, "Valid target_id required")
        ELSE LET target == get_player(s, target_id.s)
             IN  Result([s EXCEPT !.assassin_target = target_id.s,
                                  !.winner = IF target.role = Merlin
                                             THEN "evil" ELSE "loyal",
                                  !.phase = "game_over"],
                        emit(st, "assassination"), None)

handle_assassinate(s, st, player, payload) ==
    LET target_id == Get(payload, "target_id", VNone)
    IN  IF s.phase # "assassination"
        THEN Result(s, st, "Not in assassination phase")
        ELSE IF player.role # Assassin
        THEN Result(s, st, "Only assassin can act")
        ELSE IF ~Truthy(target_id) \/ ~has_player(s, target_id.s)
        THEN Result(s, st, "Valid target_id required")
        ELSE LET target == get_player(s, target_id.s)
             IN  Result([s EXCEPT !.assassin_target = target_id.s,
                                  !.winner = IF target.role = Merlin
                                             THEN "evil" ELSE "loyal",
                                  !.phase = "game_over"],
                        emit(st, "assassination"), None)

\* Mutant: the event is appended before the message is checked.
handle_chat_logged(s, st, player_id, payload) ==
    LET message == Get(payload, "message", VStr(""))
        st1 == emit(st, "chat")
    IN  IF ~Truthy(message)
        THEN Result(s, st1, "Message required")
        ELSE IF message.tag # "str"
        THEN Result(s, st1, "ValidationError")
        ELSE Result([s EXCEPT !.chat = Append(@, [player_id |-> player_id,
                                                  message |-> message.s])],
                    st1, None)

handle_chat(s, st, player_id, payload) ==
    LET message == Get(payload, "message", VStr(""))
    IN  IF ~Truthy(message)
        THEN Result(s, st, "Message required")
        ELSE IF message.tag # "str"
        THEN Result(s, st, "ValidationError")
        ELSE Result([s EXCEPT !.chat = Append(@, [player_id |-> player_id,
                                                  message |-> message.s])],
                    emit(st, "chat"), None)

\* Mutant: chat is looked at after the check that the game has started.
apply_action_chat_started(s, st, player_id, action_type, payload) ==
    IF s = NoState THEN Result(s, st, "Game not created")
    ELSE IF ~has_player(s, player_id) THEN Result(s, st, "Unknown player")
    ELSE LET player == get_player(s, player_id)
         IN  IF ~s.started THEN Result(s, st, "Game not started")
             ELSE IF action_type = "chat" THEN handle_chat(s, st, player_id, payload)
             ELSE IF action_type = "propose_team"
             THEN handle_propose(s, st, player, payload)
             ELSE IF action_type = "vote_team"
             THEN handle_vote(s, st, player, payload)
             ELSE IF action_type = "quest_vote"
             THEN handle_quest_vote(s, st, player, payload)
             ELSE IF action_type = "lady_peek"
             THEN handle_lady(s, st, player, payload)
             ELSE IF action_type = "assassinate"
             THEN handle_assassinate(s, st, player, payload)
             ELSE Result(s, st, "Unknown action")

apply_action(s, st, player_id, action_type, payload) ==
    IF s = NoState THEN Result(s, st, "Game not created")
    ELSE IF ~has_player(s, player_id) THEN Result(s, st, "Unknown player")
    ELSE LET player == get_player(s, player_id)
         IN  IF action_type = "chat" THEN handle_chat(s, st, player_id, payload)
             ELSE IF ~s.started THEN Result(s, st, "Game not started")
             ELSE IF action_type = "propose_team"
             THEN handle_propose(s, st, player, payload)
             ELSE IF action_type = "vote_team"
             THEN handle_vote(s, st, player, payload)
             ELSE IF action_type = "quest_vote"
             THEN handle_quest_vote(s, st, player, payload)
             ELSE IF action_type = "lady_peek"
             THEN handle_lady(s, st, player, payload)
             ELSE IF action_type = "assassinate"
             THEN handle_assassinate(s, st, player, payload)
             ELSE Result(s, st, "Unknown action")

----------------------------------------------------------------------------
(* game.py with an event store whose append raises.  _emit (lines 499-500) *)
(* calls EventStore.append with no exception handler, so the exception     *)
(* leaves the handler at the _emit call: the writes made before that line  *)
(* stay, the rest of the handler does not run.  k says which _emit of the  *)
(* operation raises, the first or the second.                              *)

\* The exception of a failing EventStore.append.
AppendError == "EventStore.append failed"

\* create_game: the store is cleared (line 138) and the new game installed
\* (lines 139-145) before _emit at line 146.
create_game_append_fails(s, st, req) ==
    LET r == create_game(s, st, req)
    IN  IF r.err # None THEN r
        ELSE Result(r.state, EmptyBag, AppendError)

\* start_game: every write (lines 153-162) precedes _emit at line 163; a
\* repeated start appends nothing.
start_game_append_fails(s, st, deal) ==
    LET r == start_game(s, st, deal)
    IN  IF r.err # None \/ s.started THEN r
        ELSE Result(r.state, st, AppendError)

\* _handle_propose: the first _emit (line 243) follows the writes of the team
\* and the votes and precedes the write of the phase; the second (line 247)
\* follows the write of the phase.
handle_propose_append_fails(s, st, player, payload, k) ==
    LET r == handle_propose(s, st, player, payload)
        team == Get(payload, "team", VList(<<>>))
    IN  IF r.err # None THEN r
        ELSE IF k = 1
        THEN Result([s EXCEPT !.proposed_team = team.items,
                              !.team_votes = EmptyDict], st, AppendError)
        ELSE IF s.config.hammer_auto_approve
                /\ s.proposal_attempts >= HammerThreshold
        THEN Result(r.state, emit(st, "team_proposed"), AppendError)
        ELSE r

\* _handle_vote: the first _emit (line 259) follows the write of the vote and
\* precedes the tally; the second (line 268 or 275) follows every write of the
\* resolution.
handle_vote_append_fails(s, st, player, payload, k) ==
    LET r == handle_vote(s, st, player, payload)
        approve == Get(payload, "approve", VNone)
        s1 == [s EXCEPT !.team_votes = DictSet(@, player.id, approve.b)]
    IN  IF r.err # None THEN r
        ELSE IF k = 1
        THEN Result(s1, st, AppendError)
        ELSE IF Cardinality(DOMAIN s1.team_votes) >= Len(s1.players)
        THEN Result(r.state, emit(st, "team_vote"), AppendError)
        ELSE r

\* _handle_quest_vote: the first _emit (line 289) follows the write of the vote
\* and precedes the resolution; the second (line 308) follows the quest record
\* and the counts (lines 296-307) and precedes the clearing of the round and
\* the advance (lines 313-339).
handle_quest_vote_append_fails(s, st, player, payload, k) ==
    LET r == handle_quest_vote(s, st, player, payload)
        success == Get(payload, "success", VNone)
        s1 == [s EXCEPT !.quest_votes = DictSet(@, player.id, success.b)]
        fails == Cardinality({v \in DOMAIN s1.quest_votes : ~s1.quest_votes[v]})
        needed == IF requires_two_fails(s1.config.player_count, s1.quest_number)
                  THEN 2 ELSE 1
        succeeded == fails < needed
        s2 == [s1 EXCEPT !.quest_history =
                             Append(@, QuestRecord(s1.quest_number,
                                                   s1.proposed_team,
                                                   fails, succeeded)),
                         !.success_count = IF succeeded THEN @ + 1 ELSE @,
                         !.fail_count = IF succeeded THEN @ ELSE @ + 1]
    IN  IF r.err # None THEN r
        ELSE IF k = 1
        THEN Result(s1, st, AppendError)
        ELSE IF Cardinality(DOMAIN s1.quest_votes) >= Len(s1.proposed_team)
        THEN Result(s2, emit(st, "quest_vote"), AppendError)
        ELSE r

\* chat (lines 174-175), _handle_lady (lines 355-362) and _handle_assassinate
\* (lines 372-380): one _emit, after every write.
handle_last_append_fails(r, st, k) ==
    IF r.err # None \/ k # 1 THEN r
    ELSE Result(r.state, st, AppendError)

apply_action_append_fails(s, st, player_id, action_type, payload, k) ==
    LET r == apply_action(s, st, player_id, action_type, payload)
    IN  IF r.err # None THEN r
        ELSE IF action_type = "propose_team"
        THEN handle_propose_append_fails(s, st, get_player(s, player_id), payload, k)
        ELSE IF action_type = "vote_team"
        THEN handle_vote_append_fails(s, st, get_player(s, player_id), payload, k)
        ELSE IF action_type = "quest_vote"
        THEN handle_quest_vote_append_fails(s, st, get_player(s, player_id),
                                            payload, k)
        ELSE handle_last_append_fails(r, st, k)

----------------------------------------------------------------------------
(* game.py, the operations as concurrent callers run them.  Each public    *)
(* operation takes GameEngine._lock (async with self._lock, lines 121, 150 *)
(* and 167) around its whole body.  The body is taken here in two steps,   *)
(* cut after its first _emit, each step reading the engine's state as it   *)
(* is when the step runs: the checks, the first writes and the first       *)
(* _emit; then the rest.                                                   *)

\* Mutant: the lock never makes a caller wait.
lock_free_always(l) == TRUE

\* asyncio.Lock (line 109): a caller enters only when no caller holds it.
lock_free(l) == l = None

\* A call: <<"create", request>>, <<"start", deal>> or
\* <<"act", player_id, action_type, payload>>.  The call as one step.
RunCall(s, st, call) ==
    CASE call[1] = "create" -> create_game(s, st, call[2])
      [] call[1] = "start" -> start_game(s, st, call[2])
      [] call[1] = "act" -> apply_action(s, st, call[2], call[3], call[4])

\* The first step.  Every check of a handler precedes its first write, so the
\* step raises exactly when the whole call would; create_game, start_game,
\* chat, _handle_lady and _handle_assassinate end with their only _emit.
first_step(s, st, call) ==
    LET r == RunCall(s, st, call)
    IN  IF r.err # None \/ call[1] # "act" THEN r
        ELSE IF call[3] = "propose_team"
        THEN Result([s EXCEPT !.proposed_team =
                                  Get(call[4], "team", VList(<<>>)).items,
                              !.team_votes = EmptyDict],
                    emit(st, "team_proposed"), None)
        ELSE IF call[3] = "vote_team"
        THEN Result([s EXCEPT !.team_votes =
                                  DictSet(@, call[2],
                                          Get(call[4], "approve", VNone).b)],
                    emit(st, "team_vote"), None)
        ELSE IF call[3] = "quest_vote"
        THEN Result([s EXCEPT !.quest_votes =
                                  DictSet(@, call[2],
                                          Get(call[4], "success", VNone).b)],
                    emit(st, "quest_vote"), None)
        ELSE r

\* The rest of _handle_propose (lines 245-250).
propose_rest(s, st) ==
    IF s.config.hammer_auto_approve /\ s.proposal_attempts >= HammerThreshold
    THEN Result([s EXCEPT !.phase = "quest"], emit(st, "team_hammered"), None)
    ELSE Result([s EXCEPT !.phase = "team_vote"], st, None)

\* The rest of _handle_vote (lines 260-276).
vote_rest(s, st) ==
    LET approvals == Cardinality({v \in DOMAIN s.team_votes : s.team_votes[v]})
        rejects == Len(s.players) - approvals
    IN  IF Cardinality(DOMAIN s.team_votes) < Len(s.players)
        THEN Result(s, st, None)
        ELSE IF approvals > rejects
        THEN Result([s EXCEPT !.phase = "quest", !.proposal_attempts = 0],
                    emit(st, "team_approved"), None)
        ELSE Result(reject_proposal(s), emit(st, "team_rejected"), None)

\* The rest of _handle_quest_vote (lines 290-340).
quest_vote_rest(s, st) ==
    LET fails == Cardinality({v \in DOMAIN s.quest_votes : ~s.quest_votes[v]})
        needed == IF requires_two_fails(s.config.player_count, s.quest_number)
                  THEN 2 ELSE 1
        succeeded == fails < needed
        s2 == [s EXCEPT !.quest_history =
                            Append(@, QuestRecord(s.quest_number, s.proposed_team,
                                                  fails, succeeded)),
                        !.success_count = IF succeeded THEN @ + 1 ELSE @,
                        !.fail_count = IF succeeded THEN @ ELSE @ + 1]
    IN  IF Cardinality(DOMAIN s.quest_votes) < Len(s.proposed_team)
        THEN Result(s, st, None)
        ELSE quest_advance(s2, emit(st, "quest_resolved"))

\* The second step.
second_step(s, st, call) ==
    IF call[1] # "act" THEN Result(s, st, None)
    ELSE IF call[3] = "propose_team" THEN propose_rest(s, st)
    ELSE IF call[3] = "vote_team" THEN vote_rest(s, st)
    ELSE IF call[3] = "quest_vote" THEN quest_vote_rest(s, st)
    ELSE Result(s, st, None)

----------------------------------------------------------------------------
(* game.py: the read-only projections.                                     *)

\* Mutant: the inspection history is left in the copy.
public_state_keep_lady(s) ==
    [s EXCEPT !.players = [i \in 1..Len(s.players) |->
                              [s.players[i] EXCEPT !.role = None]]]

public_state(s) ==
    [s EXCEPT !.players = [i \in 1..Len(s.players) |->
                              [s.players[i] EXCEPT !.role = None]],
              !.lady_history = <<>>]

\* private_state_for(player_id)["state"]; raises for an unknown player id.
private_state(s, player_id) ==
    LET pub == public_state(s)
        player == get_player(s, player_id)
    IN  [pub EXCEPT !.players = [i \in 1..Len(pub.players) |->
                                    IF pub.players[i].id = player_id
                                    THEN [pub.players[i] EXCEPT !.role = player.role]
                                    ELSE pub.players[i]]]

\* A player's display name: the model gives every player its id as name.
NameOf(p) == p.id

\* [p.name for p in players if ...], for a list already filtered.
NamesOf(players) == [i \in 1..Len(players) |-> NameOf(players[i])]

\* A knowledge fact: the sentence's kind and the names it joins with ", ".
Fact(kind, names) == [kind |-> kind, names |-> names]

\* _knowledge_for: the list of sentences told to a player.
knowledge_for(s, player_id) ==
    LET player == get_player(s, player_id)
        evil_known == SelectSeq(s.players,
                                LAMBDA p : p.role \in EVIL_ROLES /\ p.role # Oberon)
    IN  IF player.role = None THEN <<>>
        ELSE IF player.role \in EVIL_ROLES /\ player.role # Oberon
        THEN LET others == NamesOf(SelectSeq(evil_known,
                                             LAMBDA p : p.id # player.id))
             IN  IF others # <<>> THEN <<Fact("known_evil", others)>> ELSE <<>>
        ELSE IF player.role = Oberon
        THEN <<Fact("you_are_oberon", <<>>)>>
        ELSE IF player.role = Merlin
        THEN LET seen == NamesOf(SelectSeq(s.players,
                                           LAMBDA p : p.role \in EVIL_ROLES
                                                      /\ p.role # Mordred))
             IN  IF seen # <<>> THEN <<Fact("evil_you_see", seen)>> ELSE <<>>
        ELSE IF player.role = Percival
        THEN LET merlin == NamesOf(SelectSeq(s.players, LAMBDA p : p.role = Merlin))
                 morgana == NamesOf(SelectSeq(s.players, LAMBDA p : p.role = Morgana))
                 candidates == merlin \o morgana
             IN  IF candidates # <<>>
                 THEN <<Fact("merlin_is_one_of", candidates)>> ELSE <<>>
        ELSE <<>>

\* Mutant: every player is told every inspection.
lady_knowledge_for_all(s, player_id) ==
    [i \in 1..Len(s.lady_history) |->
        [target |-> NameOf(get_player(s, s.lady_history[i].target_id)),
         alignment |-> s.lady_history[i].alignment]]

\* _lady_knowledge_for: the inspections made by this player, as sentences
\* "<target name> is <alignment>".
lady_knowledge_for(s, player_id) ==
    LET own == SelectSeq(s.lady_history, LAMBDA entry : entry.holder_id = player_id)
    IN  [i \in 1..Len(own) |->
            [target |-> NameOf(get_player(s, own[i].target_id)),
             alignment |-> own[i].alignment]]

\* Mutant: Merlin is shown Mordred as well.
alignment_hint_mordred_seen(viewer, target) ==
    IF viewer.role \in EVIL_ROLES /\ viewer.role # Oberon
    THEN IF target.role \in EVIL_ROLES /\ target.role # Oberon
         THEN "evil" ELSE "unknown"
    ELSE IF viewer.role = Oberon
    THEN IF target.id = viewer.id THEN "evil" ELSE "unknown"
    ELSE IF viewer.role = Merlin
    THEN IF target.role \in EVIL_ROLES THEN "evil" ELSE "unknown"
    ELSE IF viewer.role = Percival
    THEN IF target.role \in {Merlin, Morgana}
         THEN "merlin_candidate" ELSE "unknown"
    ELSE "unknown"

\* The alignment_hint _visibility_for gives a viewer with a role about a target.
alignment_hint(viewer, target) ==
    IF viewer.role \in EVIL_ROLES /\ viewer.role # Oberon
    THEN IF target.role \in EVIL_ROLES /\ target.role # Oberon
         THEN "evil" ELSE "unknown"
    ELSE IF viewer.role = Oberon
    THEN IF target.id = viewer.id THEN "evil" ELSE "unknown"
    ELSE IF viewer.role = Merlin
    THEN IF target.role \in EVIL_ROLES /\ target.role # Mordred
         THEN "evil" ELSE "unknown"
    ELSE IF viewer.role = Percival
    THEN IF target.role \in {Merlin, Morgana}
         THEN "merlin_candidate" ELSE "unknown"
    ELSE "unknown"

\* _visibility_for: one entry per player, in list order.
visibility_for(s, player_id) ==
    LET player == get_player(s, player_id)
    IN  [i \in 1..Len(s.players) |->
            [id |-> s.players[i].id,
             name |-> NameOf(s.players[i]),
             alignment_hint |-> IF player.role = None THEN "unknown"
                                ELSE alignment_hint(player, s.players[i]),
             role_hint |-> None]]

\* private_state_for: the whole dict returned to a player.
private_state_for(s, player_id) ==
    LET player == get_player(s, player_id)
    IN  [state |-> private_state(s, player_id),
         role |-> player.role,
         knowledge |-> knowledge_for(s, player_id),
         alignment |-> IF player.role # None THEN alignment_for(player.role)
                       ELSE None,
         visibility |-> visibility_for(s, player_id),
         lady_knowledge |-> lady_knowledge_for(s, player_id)]

\* Mutant: during a ballot every player is awaited, voted or not.
awaited_every_voter(s) ==
    CASE s.phase = "team_proposal" ->
             IF s.proposed_team = <<>>
             THEN <<s.players[s.leader_index + 1].id>> ELSE <<>>
      [] s.phase = "team_vote" ->
             [i \in 1..Len(s.players) |-> s.players[i].id]
      [] s.phase = "quest" ->
             SelectSeq(s.proposed_team, LAMBDA id : id \notin DOMAIN s.quest_votes)
      [] s.phase = "assassination" ->
             IF (\E i \in 1..Len(s.players) : s.players[i].role = Assassin)
                /\ s.assassin_target = None
             THEN <<s.players[CHOOSE i \in 1..Len(s.players) :
                                 /\ s.players[i].role = Assassin
                                 /\ \A j \in 1..(i - 1) :
                                        s.players[j].role # Assassin].id>>
             ELSE <<>>
      [] s.phase = "lady_of_lake" ->
             IF s.lady_holder_id # None THEN <<s.lady_holder_id>> ELSE <<>>
      [] OTHER -> <<>>

\* The ids pending_actions passes to add_pending, in the order it does
\* (lines 395-413).
awaited(s) ==
    CASE s.phase = "team_proposal" ->
             IF s.proposed_team = <<>>
             THEN <<s.players[s.leader_index + 1].id>> ELSE <<>>
      [] s.phase = "team_vote" ->
             SelectSeq([i \in 1..Len(s.players) |-> s.players[i].id],
                       LAMBDA id : id \notin DOMAIN s.team_votes)
      [] s.phase = "quest" ->
             SelectSeq(s.proposed_team, LAMBDA id : id \notin DOMAIN s.quest_votes)
      [] s.phase = "assassination" ->
             IF (\E i \in 1..Len(s.players) : s.players[i].role = Assassin)
                /\ s.assassin_target = None
             THEN <<s.players[CHOOSE i \in 1..Len(s.players) :
                                 /\ s.players[i].role = Assassin
                                 /\ \A j \in 1..(i - 1) :
                                        s.players[j].role # Assassin].id>>
             ELSE <<>>
      [] s.phase = "lady_of_lake" ->
             IF s.lady_holder_id # None THEN <<s.lady_holder_id>> ELSE <<>>
      [] OTHER -> <<>>

\* pending_actions: (human_pending, bot_pending); add_pending (lines 388-393)
\* files each id by the player's is_bot flag.
pending_actions(s) ==
    [human |-> SelectSeq(awaited(s), LAMBDA id : ~get_player(s, id).is_bot),
     bot |-> SelectSeq(awaited(s), LAMBDA id : get_player(s, id).is_bot)]

----------------------------------------------------------------------------
(* bot/policy.py: BotPolicy._heuristic, the decision of an automated       *)
(* player in heuristic mode.  Every outcome of random.sample,              *)
(* random.choice and random.random is a decision the policy can return.    *)

\* BotPolicy._evil_ids (lines 271-273).
evil_ids(s) ==
    {s.players[i].id : i \in {j \in 1..Len(s.players) :
                                 /\ s.players[j].role # None
                                 /\ alignment_for(s.players[j].role) = "evil"}}

\* BotPolicy._has_human_evil_player (lines 275-281).
has_human_evil_player(s) ==
    \E i \in 1..Len(s.players) :
        /\ ~s.players[i].is_bot
        /\ s.players[i].role # None
        /\ alignment_for(s.players[i].role) = "evil"

\* random.sample(population, k): every ordered choice of k distinct members.
Samples(population, k) ==
    {q \in [1..k -> population] : \A i, j \in 1..k : i # j => q[i] # q[j]}

Decision(action_type, payload) == [action_type |-> action_type, payload |-> payload]

\* The decisions _heuristic can return for a player (lines 235-263); none
\* when team_size raises.
heuristic(s, player) ==
    LET others == PlayerIds(s) \ {player.id}
        evil == player.role # None /\ alignment_for(player.role) = "evil"
    IN  IF s.phase = "team_proposal"
        THEN LET size == team_size_call(s.config.player_count, s.quest_number)
             IN  IF size.err # None THEN {}
                 ELSE {Decision("propose_team",
                                Dict1("team", VList(<<player.id>> \o q))) :
                          q \in Samples(others, size.value - 1)}
        ELSE IF s.phase = "team_vote"
        THEN LET sure == IF evil
                         THEN SeqToSet(s.proposed_team) \cap evil_ids(s) # {}
                         ELSE player.id \in SeqToSet(s.proposed_team)
             IN  {Decision("vote_team", Dict1("approve", VBool(b))) :
                     b \in IF sure THEN {TRUE} ELSE BOOLEAN}
        ELSE IF s.phase = "quest"
        THEN {Decision("quest_vote", Dict1("success", VBool(b))) :
                 b \in IF evil THEN BOOLEAN ELSE {TRUE}}
        ELSE IF s.phase = "assassination" /\ player.role = Assassin
        THEN IF has_human_evil_player(s)
             THEN {Decision("chat", Dict1("message", VStr("pass")))}
             ELSE {Decision("assassinate", Dict1("target_id", VStr(x))) :
                      x \in others}
        ELSE IF s.phase = "lady_of_lake" /\ s.lady_holder_id = player.id
        THEN {Decision("lady_peek", Dict1("target_id", VStr(x))) : x \in others}
        ELSE {Decision("chat", Dict1("message", VStr("pass")))}

----------------------------------------------------------------------------
(* game.py, the projections as a caller runs them next to the mutating     *)
(* operations.  public_state, private_state_for and pending_actions are    *)
(* plain functions (def, lines 194, 201 and 383) that take no lock, and    *)
(* the bodies under the lock contain no await: the event loop, which runs  *)
(* one coroutine at a time and changes coroutine only at an await, has no  *)
(* line in any of them at which to run another caller.                     *)

\* Where a caller is between two lines with no await between them.
MidStretch == {"entered", "halfway", "finished", "copied", "returned"}

\* Mutant: the scheduler may change caller at any line.
loop_free_always(pcs) == TRUE

\* The event loop gives a caller its next step only when no other caller is
\* between two such lines; pcs are the places of the other callers.
loop_free(pcs) == pcs \cap MidStretch = {}

\* A read: <<"public">>, <<"private", player_id>> or <<"pending">>.  The read
\* as one step.
Project(s, read) ==
    CASE read[1] = "public" -> public_state(s)
      [] read[1] = "private" -> private_state_for(s, read[2])
      [] read[1] = "pending" -> pending_actions(s)

\* private_state_for after its first line: the dict it builds (lines 203-214)
\* from the copy `pub` line 202 made and from the engine's state as it is now.
private_state_from(pub, s, player_id) ==
    LET player == get_player(s, player_id)
    IN  [state |-> [pub EXCEPT !.players =
                        [i \in 1..Len(pub.players) |->
                            IF pub.players[i].id = player_id
                            THEN [pub.players[i] EXCEPT !.role = player.role]
                            ELSE pub.players[i]]],
         role |-> player.role,
         knowledge |-> knowledge_for(s, player_id),
         alignment |-> IF player.role # None THEN alignment_for(player.role)
                       ELSE None,
         visibility |-> visibility_for(s, player_id),
         lady_knowledge |-> lady_knowledge_for(s, player_id)]

\* The first step of a read: public_state and pending_actions whole,
\* private_state_for up to the copy of line 202.
read_first(s, read) ==
    IF read[1] = "private" THEN public_state(s) ELSE Project(s, read)

----------------------------------------------------------------------------
(* The callers' inputs.                                                    *)

IdOf(i) == <<"p1", "p2", "p3", "p4", "p5", "p6", "p7", "p8", "p9", "p10">>[i]

\* The players of a create request: seat i has id IdOf(i); even seats are bots.
MakePlayers(n) == [i \in 1..n |-> Player(IdOf(i), i % 2 = 0)]

CreateGameRequest(n, roles, hammer, lady) ==
    [players |-> MakePlayers(n), roles |-> roles,
     hammer_auto_approve |-> hammer, lady_of_lake |-> lady]

\* Requests create_game accepts: the default role set for five, six or seven
\* players, in "roles" two explicit role lists, in "small" a list of two roles
\* for two players, in "bot" the default set and a list that seats both evil
\* roles on automated players.
GoodRequests ==
    CASE scenario = "flow" ->
             {CreateGameRequest(5, <<>>, TRUE, l) : l \in BOOLEAN}
      [] scenario = "hammer" ->
             {CreateGameRequest(5, <<>>, h, FALSE) : h \in BOOLEAN}
      [] scenario = "talk" ->
             {CreateGameRequest(5, <<>>, TRUE, TRUE)}
      [] scenario = "tie" ->
             {CreateGameRequest(6, <<>>, TRUE, FALSE)}
      [] scenario = "seven" ->
             {CreateGameRequest(7, <<>>, TRUE, FALSE)}
      [] scenario \in {"faulty", "race", "loop"} ->
             {CreateGameRequest(5, <<>>, TRUE, FALSE)}
      [] scenario = "small" ->
             {CreateGameRequest(2, <<Merlin, Assassin>>, TRUE, FALSE)}
      [] scenario = "bot" ->
             {CreateGameRequest(5, <<>>, TRUE, FALSE),
              CreateGameRequest(5, <<Merlin, Assassin, Percival, Minion,
                                     LoyalServant>>, TRUE, FALSE)}
      [] scenario = "fair" ->
             {CreateGameRequest(5, <<>>, TRUE, TRUE),
              CreateGameRequest(2, <<Merlin, Assassin>>, TRUE, FALSE)}
      [] scenario = "roles" ->
             {CreateGameRequest(7, <<Merlin, Percival, LoyalServant, Assassin,
                                     Morgana, Mordred, Oberon>>, TRUE, FALSE),
              CreateGameRequest(5, <<Merlin, Merlin, LoyalServant, Assassin,
                                     Minion>>, TRUE, FALSE)}

\* Requests create_game refuses, one for each check it makes.
BadRequests ==
    {CreateGameRequest(4, <<>>, TRUE, TRUE),
     CreateGameRequest(5, <<Merlin, Assassin>>, TRUE, TRUE),
     CreateGameRequest(5, <<Merlin, LoyalServant, LoyalServant, Assassin, Morgana>>,
                       TRUE, TRUE),
     CreateGameRequest(5, <<Merlin, Percival, LoyalServant, LoyalServant, Minion>>,
                       TRUE, TRUE),
     CreateGameRequest(5, <<Percival, LoyalServant, LoyalServant, Assassin, Minion>>,
                       TRUE, TRUE)}

CreateRequests == GoodRequests \cup BadRequests

\* Outcomes of random.shuffle explored: rotations of the configured list.
Rotate(q, k) == [i \in 1..Len(q) |-> q[((i - 1 + k) % Len(q)) + 1]]

DealShifts ==
    CASE scenario = "flow" -> {0, 3}
      [] scenario = "seven" -> {4}
      [] scenario = "roles" -> 0..6
      [] OTHER -> {0}

\* A deal with the holders of roles a and b exchanged.
SwapRoles(deal, a, b) ==
    [i \in 1..Len(deal) |->
        IF deal[i] = a THEN b ELSE IF deal[i] = b THEN a ELSE deal[i]]

\* In "tie" the deal with Merlin and Morgana exchanged is explored as well.
Deals(s) ==
    IF s = NoState THEN {<<>>}
    ELSE {Rotate(s.config.roles, k) : k \in DealShifts}
             \cup (IF scenario = "tie"
                   THEN {SwapRoles(Rotate(s.config.roles, k), Merlin, Morgana) :
                            k \in DealShifts}
                   ELSE {})

\* Caller ids: the ids of the game's players and one id no game knows.
UnknownId == "zz"

CallerIds(s) ==
    IF s = NoState THEN {IdOf(1), UnknownId}
    ELSE PlayerIds(s) \cup {UnknownId}

\* A block of k consecutive seats starting at seat `first` (1-based, wrapping).
Block(s, first, k) ==
    [i \in 1..k |-> s.players[((first - 1 + i - 1) % Len(s.players)) + 1].id]

InGame(s) ==
    /\ s # NoState
    /\ team_size_supported(s.config.player_count)
    /\ s.quest_number \in 1..5

\* The team offered to propose_team: seats 2, 3, ... up to the required size.
GoodTeam(s) ==
    IF ~InGame(s) THEN <<>>
    ELSE Block(s, 2, team_size(s.config.player_count, s.quest_number))

\* Malformed variants of it: a duplicate member, an unknown member, one member
\* too many, one too few.
BadTeams(s) ==
    IF ~InGame(s) THEN {<<UnknownId>>}
    ELSE LET k == Len(GoodTeam(s))
         IN  {[GoodTeam(s) EXCEPT ![k] = GoodTeam(s)[1]],
              [GoodTeam(s) EXCEPT ![k] = UnknownId],
              Block(s, Len(s.players) - k, k + 1),
              Block(s, Len(s.players) - k + 2, k - 1)}

ProposePayloads(s) ==
    {EmptyDict, Dict1("team", VStr("p1"))}
        \cup {Dict1("team", VList(t)) : t \in {GoodTeam(s)} \cup BadTeams(s)}

VotePayloads(key) ==
    {EmptyDict, Dict1(key, VStr("yes")), Dict1(key, VBool(TRUE)),
     Dict1(key, VBool(FALSE))}

\* In the "hammer", "tie" and "roles" scenarios every quest vote sent is a
\* success.
QuestPayloads ==
    IF scenario \in {"hammer", "tie", "roles"} THEN VotePayloads("success") \ {Dict1("success", VBool(FALSE))}
    ELSE VotePayloads("success")

RejectsBound == IF scenario = "hammer" THEN MaxHammerRejects ELSE MaxRejects
ChatBound == IF scenario = "talk" THEN MaxChat ELSE 0
RevotesBound == IF scenario = "talk" THEN MaxRevotes ELSE 0

TargetPayloads(targets) ==
    {EmptyDict} \cup {Dict1("target_id", VStr(t)) : t \in targets}

LadyTargets == {IdOf(2), IdOf(4)}

ChatPayloads == {EmptyDict, Dict1("message", VStr("")), Dict1("message", VStr("hi"))}

ActionTypes ==
    {"chat", "propose_team", "vote_team", "quest_vote", "lady_peek", "assassinate",
     "dance"}

\* Every payload a caller may send with an action type.
Payloads(s, action_type) ==
    CASE action_type = "chat" -> ChatPayloads
      [] action_type = "propose_team" -> ProposePayloads(s)
      [] action_type = "vote_team" -> VotePayloads("approve")
      [] action_type = "quest_vote" -> VotePayloads("success")
      [] action_type = "lady_peek" -> TargetPayloads(CallerIds(s) \cup {""})
      [] action_type = "assassinate" -> TargetPayloads(CallerIds(s) \cup {""})
      [] OTHER -> {EmptyDict}

LeaderId(s) == s.players[s.leader_index + 1].id

----------------------------------------------------------------------------
(* Bookkeeping for the bounds.                                             *)

RECURSIVE TeamSlots(_)
TeamSlots(history) ==
    IF history = <<>> THEN 0
    ELSE Len(Head(history).team) + TeamSlots(Tail(history))

\* The number of recorded votes that overwrote an earlier vote: vote events in
\* the store beyond one per ballot slot filled so far.
Revotes(s, st) ==
    LET ballots == CopiesIn("team_approved", st) + CopiesIn("team_rejected", st)
        open == IF s.phase = "team_vote" THEN Cardinality(DOMAIN s.team_votes)
                ELSE 0
    IN  (CopiesIn("team_vote", st) - (Len(s.players) * ballots + open))
        + (CopiesIn("quest_vote", st)
             - (TeamSlots(s.quest_history) + Cardinality(DOMAIN s.quest_votes)))

\* Position of a player id in a list of ids (0 when absent).
IndexOf(q, id) ==
    IF \E i \in 1..Len(q) : q[i] = id
    THEN CHOOSE i \in 1..Len(q) : q[i] = id
    ELSE 0

\* Ballots are explored in list order: a first vote by `pid` is taken when every
\* voter before it in `order` has voted; a repeated vote while fewer than
\* RevotesBound were recorded.
VoteAllowed(s, st, order, votes, pid) ==
    IF pid \in DOMAIN votes
    THEN Revotes(s, st) < RevotesBound
    ELSE \A i \in 1..(IndexOf(order, pid) - 1) : order[i] \in DOMAIN votes

SeatIds(s) == [i \in 1..Len(s.players) |-> s.players[i].id]

\* The team votes explored: in "seven" and "roles" every vote approves; in "tie" the first
\* three seats approve and the others vote either way.
VoteExplored(s, pid, payload) ==
    CASE scenario \in {"seven", "roles"} -> payload = Dict1("approve", VBool(TRUE))
      [] scenario = "tie" ->
             IndexOf(SeatIds(s), pid) <= 3 => payload = Dict1("approve", VBool(TRUE))
      [] OTHER -> TRUE

----------------------------------------------------------------------------
(* The state machine.                                                      *)

Scenarios == {"flow", "hammer", "talk", "tie", "seven", "roles", "small"}

\* The callers that may be in a call at the same time.
Tasks == {"t1", "t2"}

\* A caller outside any call.
IdleTask ==
    [pc |-> "idle", call |-> <<>>, before |-> <<>>, err |-> None, result |-> <<>>]

\* The engine as constructed (GameEngine.__init__): no game, an empty store
\* that has never failed, the lock free, no caller in a call.
Constructed ==
    /\ state = NoState
    /\ store = EmptyBag
    /\ faults = 0
    /\ lock = None
    /\ tasks = [t \in Tasks |-> IdleTask]

Init ==
    /\ Constructed
    /\ scenario \in Scenarios

\* A call that runs from beginning to end with no other caller and no failing
\* append.
Returns(r) ==
    /\ state' = r.state
    /\ store' = r.store
    /\ UNCHANGED <<scenario, faults, lock, tasks>>

CreateGame ==
    \E req \in CreateRequests :
        Returns(create_game(state, store, req))

StartGame ==
    \E deal \in Deals(state) :
        Returns(start_game(state, store, deal))

Chat ==
    \E pid \in {IdOf(2), UnknownId}, payload \in ChatPayloads :
        LET r == apply_action(state, store, pid, "chat", payload)
        IN  /\ r.err = None => Len(state.chat) < ChatBound
            /\ Returns(r)

ProposeTeam ==
    \E pid \in CallerIds(state), payload \in ProposePayloads(state) :
        /\ (state # NoState /\ pid # LeaderId(state)) =>
               payload = Dict1("team", VList(GoodTeam(state)))
        /\ Returns(apply_action(state, store, pid, "propose_team", payload))

VoteTeam ==
    \E pid \in CallerIds(state), payload \in VotePayloads("approve") :
        LET r == apply_action(state, store, pid, "vote_team", payload)
        IN  /\ r.err = None =>
                /\ VoteAllowed(state, store, SeatIds(state), state.team_votes, pid)
                /\ VoteExplored(state, pid, payload)
                /\ r.state.phase = "team_proposal" =>
                       CopiesIn("team_rejected", store) < RejectsBound
            /\ Returns(r)

QuestVote ==
    \E pid \in CallerIds(state), payload \in QuestPayloads :
        LET r == apply_action(state, store, pid, "quest_vote", payload)
        IN  /\ r.err = None =>
                VoteAllowed(state, store, state.proposed_team, state.quest_votes, pid)
            /\ Returns(r)

LadyPeek ==
    \E pid \in CallerIds(state),
       payload \in TargetPayloads(LadyTargets \cup {UnknownId, ""}) :
        /\ (state # NoState /\ pid # state.lady_holder_id) =>
               payload = Dict1("target_id", VStr(IdOf(2)))
        /\ Returns(apply_action(state, store, pid, "lady_peek", payload))

Assassinate ==
    \E pid \in CallerIds(state), payload \in TargetPayloads(CallerIds(state)) :
        /\ (state # NoState /\ state.phase # "assassination") =>
               payload = Dict1("target_id", VStr(IdOf(1)))
        /\ Returns(apply_action(state, store, pid, "assassinate", payload))

UnknownAction ==
    \E pid \in {IdOf(1), UnknownId} :
        Returns(apply_action(state, store, pid, "dance", EmptyDict))

Next ==
    \/ CreateGame
    \/ StartGame
    \/ Chat
    \/ ProposeTeam
    \/ VoteTeam
    \/ QuestVote
    \/ LadyPeek
    \/ Assassinate
    \/ UnknownAction

Spec == Init /\ [][Next]_vars

----------------------------------------------------------------------------
(* Every call a client can make in a state, for statements about calls.    *)

Calls(s) ==
    UNION {{<<pid, a, payload>> : pid \in CallerIds(s), payload \in Payloads(s, a)} :
              a \in ActionTypes}

Act(s, st, c) == apply_action(s, st, c[1], c[2], c[3])

Created == state # NoState

NoDuplicates(q) == Cardinality(SeqToSet(q)) = Len(q)

----------------------------------------------------------------------------
(* The state machine with an event store that may raise: the operations of *)
(* Spec, and the same operations cut short by a failing append.            *)

\* Which _emit of an operation may raise.
Emits == {1, 2}

\* An operation that ends in the exception of a failing append.
Raises(r) ==
    /\ r.err = AppendError
    /\ faults < MaxFaults
    /\ state' = r.state
    /\ store' = r.store
    /\ faults' = faults + 1
    /\ UNCHANGED <<scenario, lock, tasks>>

CreateAppendFails ==
    \E req \in GoodRequests :
        Raises(create_game_append_fails(state, store, req))

StartAppendFails ==
    \E deal \in Deals(state) :
        Raises(start_game_append_fails(state, store, deal))

\* The calls explored with a failing append: those of the leader and of the
\* first two seats.
ActAppendFails ==
    \E pid \in CallerIds(state), a \in ActionTypes, k \in Emits :
        \E payload \in Payloads(state, a) :
            /\ state # NoState
            /\ pid \in {LeaderId(state), IdOf(1), IdOf(2)}
            /\ Raises(apply_action_append_fails(state, store, pid, a, payload, k))

InitAppendFails ==
    /\ Constructed
    /\ scenario = "faulty"

NextAppendFails ==
    \/ Next
    \/ CreateAppendFails
    \/ StartAppendFails
    \/ ActAppendFails

SpecAppendFails == InitAppendFails /\ [][NextAppendFails]_vars

----------------------------------------------------------------------------
(* The state machine of concurrent callers.  A caller makes a call, waits  *)
(* for the lock, takes it, runs the two steps of the body, and gives the   *)
(* lock back; any caller may take any step it is ready for.                *)

\* The seats that have not voted yet in `votes`, in the order of `order`.
Unvoted(order, votes) == SelectSeq(order, LAMBDA id : id \notin DOMAIN votes)

\* The first two of a list.
FirstTwo(q) == {q[i] : i \in 1..(IF Len(q) < 2 THEN Len(q) ELSE 2)}

\* The calls explored: a new game, a start, the leader's proposal, an approval
\* by either of the next two voters of the ballot, a success by either of the
\* next two members of the team, the shot at the first seat by the Assassin
\* and by the first seat once the quests are won.
RacedCalls(s) ==
    {<<"create", req>> : req \in GoodRequests}
      \cup {<<"start", deal>> : deal \in Deals(s)}
      \cup (IF s = NoState \/ ~InGame(s) THEN {}
            ELSE {<<"act", LeaderId(s), "propose_team",
                    Dict1("team", VList(GoodTeam(s)))>>}
                 \cup {<<"act", pid, "vote_team", Dict1("approve", VBool(TRUE))>> :
                          pid \in FirstTwo(Unvoted(SeatIds(s), s.team_votes))}
                 \cup {<<"act", pid, "quest_vote", Dict1("success", VBool(TRUE))>> :
                          pid \in FirstTwo(Unvoted(s.proposed_team, s.quest_votes))}
                 \cup {<<"act", pid, "assassinate",
                         Dict1("target_id", VStr(IdOf(1)))>> :
                          pid \in {p \in PlayerIds(s) :
                                      /\ s.phase = "assassination"
                                      /\ \/ p = IdOf(1)
                                         \/ get_player(s, p).role = Assassin}})

\* The caller makes a call and waits at `async with self._lock`.
Call(t) ==
    /\ tasks[t].pc = "idle"
    /\ \E call \in RacedCalls(state) :
           tasks' = [tasks EXCEPT ![t] = [IdleTask EXCEPT !.pc = "waiting",
                                                         !.call = call]]
    /\ UNCHANGED <<state, store, scenario, faults, lock>>

\* The caller takes the lock; `before` keeps the game and the log it finds.
Acquire(t) ==
    /\ tasks[t].pc = "waiting"
    /\ lock_free(lock)
    /\ lock' = t
    /\ tasks' = [tasks EXCEPT ![t].pc = "entered", ![t].before = <<state, store>>]
    /\ UNCHANGED <<state, store, scenario, faults>>

\* The first step of the body; an exception ends the body.
FirstStep(t) ==
    /\ tasks[t].pc = "entered"
    /\ LET r == first_step(state, store, tasks[t].call)
       IN  /\ state' = r.state
           /\ store' = r.store
           /\ tasks' = [tasks EXCEPT ![t].pc = IF r.err = None THEN "halfway"
                                               ELSE "finished",
                                     ![t].err = r.err]
    /\ UNCHANGED <<scenario, faults, lock>>

\* The second step of the body.
SecondStep(t) ==
    /\ tasks[t].pc = "halfway"
    /\ LET r == second_step(state, store, tasks[t].call)
       IN  /\ state' = r.state
           /\ store' = r.store
           /\ tasks' = [tasks EXCEPT ![t].pc = "finished", ![t].err = r.err]
    /\ UNCHANGED <<scenario, faults, lock>>

\* The end of `async with`: the lock is given back and the call returns.
Release(t) ==
    /\ tasks[t].pc = "finished"
    /\ lock' = None
    /\ tasks' = [tasks EXCEPT ![t] = IdleTask]
    /\ UNCHANGED <<state, store, scenario, faults>>

InitLocked ==
    /\ Constructed
    /\ scenario = "race"

NextLocked ==
    \E t \in Tasks :
        \/ Call(t)
        \/ Acquire(t)
        \/ FirstStep(t)
        \/ SecondStep(t)
        \/ Release(t)

SpecLocked == InitLocked /\ [][NextLocked]_vars

----------------------------------------------------------------------------
(* The state machine of the event loop: the concurrent callers of the      *)
(* mutating operations and a reader of the projections, each given its     *)
(* next step when the loop is free.                                        *)

Readers == {"r1"}

\* The caller of the mutating operations that runs next to the reader.
Writers == {"t1"}

\* The reads explored: the public view, the pending players, the private view
\* of the first seat and of the fourth.
Reads == {<<"public">>, <<"pending">>, <<"private", IdOf(1)>>, <<"private", IdOf(4)>>}

PcsOfOthers(t) == {tasks[u].pc : u \in (DOMAIN tasks) \ {t}}

\* The state between whole operations: the one a caller in the middle of its
\* body found, or the current one when no caller is in the middle of a body.
Boundary ==
    IF \E t \in Writers : tasks[t].pc \in {"entered", "halfway"}
    THEN CHOOSE t \in Writers : tasks[t].pc \in {"entered", "halfway"}
    ELSE ""

BoundaryState == IF Boundary = "" THEN state ELSE tasks[Boundary].before[1]

\* The reader calls a projection; its first step runs.  `before` keeps the
\* state it reads and the state between operations at that moment.
ReadFirst(r) ==
    /\ tasks[r].pc = "idle"
    /\ state # NoState
    /\ \E read \in Reads :
           tasks' = [tasks EXCEPT ![r] =
                        [IdleTask EXCEPT !.pc = IF read[1] = "private" THEN "copied"
                                               ELSE "returned",
                                         !.call = read,
                                         !.before = <<state, BoundaryState>>,
                                         !.result = read_first(state, read)]]
    /\ UNCHANGED <<state, store, scenario, faults, lock>>

\* The rest of private_state_for.
ReadSecond(r) ==
    /\ tasks[r].pc = "copied"
    /\ tasks' = [tasks EXCEPT ![r].pc = "returned",
                              ![r].result = private_state_from(tasks[r].result, state,
                                                               tasks[r].call[2])]
    /\ UNCHANGED <<state, store, scenario, faults, lock>>

\* The caller has used the value.
ReadReturn(r) ==
    /\ tasks[r].pc = "returned"
    /\ tasks' = [tasks EXCEPT ![r] = IdleTask]
    /\ UNCHANGED <<state, store, scenario, faults, lock>>

InitLoop ==
    /\ state = NoState
    /\ store = EmptyBag
    /\ faults = 0
    /\ lock = None
    /\ tasks = [t \in Writers \cup Readers |-> IdleTask]
    /\ scenario = "loop"

\* The loop gives caller t its next step.
Scheduled(t) == loop_free(PcsOfOthers(t))

LoopCall == \E t \in Writers : Scheduled(t) /\ Call(t)
LoopAcquire == \E t \in Writers : Scheduled(t) /\ Acquire(t)
LoopFirstStep == \E t \in Writers : Scheduled(t) /\ FirstStep(t)
LoopSecondStep == \E t \in Writers : Scheduled(t) /\ SecondStep(t)
LoopRelease == \E t \in Writers : Scheduled(t) /\ Release(t)
LoopReadFirst == \E r \in Readers : Scheduled(r) /\ ReadFirst(r)
LoopReadSecond == \E r \in Readers : Scheduled(r) /\ ReadSecond(r)
LoopReadReturn == \E r \in Readers : Scheduled(r) /\ ReadReturn(r)

NextLoop ==
    \/ LoopCall
    \/ LoopAcquire
    \/ LoopFirstStep
    \/ LoopSecondStep
    \/ LoopRelease
    \/ LoopReadFirst
    \/ LoopReadSecond
    \/ LoopReadReturn

SpecLoop == InitLoop /\ [][NextLoop]_vars

----------------------------------------------------------------------------
(* The state machine of one game played to its end: the game is created    *)
(* once and started, and then the players act.  The players pending_actions *)
(* lists act in the order it lists them; any player may besides send a     *)
(* vote again, a chat message, or a call the engine refuses.               *)

\* The ids pending_actions lists, humans and automated players together.
PendingIds(s) ==
    IF s = NoState THEN {}
    ELSE SeqToSet(pending_actions(s).human) \cup SeqToSet(pending_actions(s).bot)

\* The first id awaited(s) lists.
NextPending(s) == IF awaited(s) = <<>> THEN {} ELSE {Head(awaited(s))}

\* The id of the seat after a player's, around the table.
SeatAfter(s, pid) == SeatIds(s)[(IndexOf(SeatIds(s), pid) % Len(s.players)) + 1]

\* The non-chat calls explored for a player: the team of GoodTeam, either
\* vote, an inspection of the next seat, the shot at the first or second seat.
PlayCalls(s, pid) ==
    {<<pid, "propose_team", Dict1("team", VList(GoodTeam(s)))>>}
      \cup {<<pid, "vote_team", Dict1("approve", VBool(b))>> : b \in BOOLEAN}
      \cup {<<pid, "quest_vote", Dict1("success", VBool(b))>> : b \in BOOLEAN}
      \cup {<<pid, "lady_peek", Dict1("target_id", VStr(SeatAfter(s, pid)))>>}
      \cup {<<pid, "assassinate", Dict1("target_id", VStr(x))>> :
               x \in {IdOf(1), IdOf(2)}}

\* The ballots explored: a first vote of a ballot is either, a later first
\* vote of a player follows the votes already recorded.
Follows(s, c) ==
    (c[2] = "vote_team" /\ DOMAIN s.team_votes # {}) =>
        \E v \in DOMAIN s.team_votes : s.team_votes[v] = c[3]["approve"].b

CreateOnce ==
    /\ state = NoState
    /\ CreateGame

\* A player pending_actions lists sends a non-chat action the engine accepts.
PendingActs ==
    /\ state # NoState
    /\ \E pid \in NextPending(state) :
           \E c \in PlayCalls(state, pid) :
               LET r == Act(state, store, c)
               IN  /\ r.err = None
                   /\ Follows(state, c)
                   /\ Returns(r)

\* A player who has voted votes again (at most MaxRevotes times a game).
VotesAgain ==
    /\ state # NoState
    /\ \E pid \in PlayerIds(state) \ PendingIds(state) :
           \E c \in PlayCalls(state, pid) :
               LET r == Act(state, store, c)
               IN  /\ r.err = None
                   /\ Revotes(state, store) < MaxRevotes
                   /\ Returns(r)

\* A chat message (at most MaxChat a game), or a call the engine refuses.
Idles ==
    /\ state # NoState
    /\ \E c \in {<<LeaderId(state), "chat", Dict1("message", VStr("hi"))>>,
                  <<LeaderId(state), "dance", EmptyDict>>} :
           LET r == Act(state, store, c)
           IN  /\ r.err = None => Len(state.chat) < MaxChat
               /\ Returns(r)

InitFair ==
    /\ Constructed
    /\ scenario = "fair"

NextFair ==
    \/ CreateOnce
    \/ StartGame
    \/ PendingActs
    \/ VotesAgain
    \/ Idles

\* Fairness: a listed player's accepted action is not put off for ever.
SpecFair == InitFair /\ [][NextFair]_vars /\ WF_vars(PendingActs)

----------------------------------------------------------------------------
(* The state machine of a game with automated players: one game, created   *)
(* once, in which the first player pending_actions lists acts next; a      *)
(* human sends a call of its choice, an automated player the call the      *)
(* heuristic policy decides.  Players of even seats are automated.  In the *)
(* default deal the Assassin is automated and the Minion human; in the     *)
(* explicit deal both are automated.                                       *)

\* The listed human sends a non-chat action the engine accepts; humans
\* approve every team.
HumanActs ==
    /\ state # NoState
    /\ \E pid \in NextPending(state) :
           /\ ~get_player(state, pid).is_bot
           /\ \E c \in PlayCalls(state, pid) :
                  LET r == Act(state, store, c)
                  IN  /\ r.err = None
                      /\ c[2] = "vote_team" => c[3]["approve"].b
                      /\ Returns(r)

\* The listed automated player's decision is applied (a chat message at most
\* MaxChat times a game).
BotActs ==
    /\ state # NoState
    /\ \E pid \in NextPending(state) :
           /\ get_player(state, pid).is_bot
           /\ \E d \in heuristic(state, get_player(state, pid)) :
                  LET r == apply_action(state, store, pid, d.action_type, d.payload)
                  IN  /\ d.action_type = "chat" => Len(state.chat) < MaxChat
                      /\ Returns(r)

InitBot ==
    /\ Constructed
    /\ scenario = "bot"

NextBot ==
    \/ CreateOnce
    \/ StartGame
    \/ HumanActs
    \/ BotActs

\* Fairness: a listed automated player's turn is not put off for ever.
SpecBot == InitBot /\ [][NextBot]_vars /\ WF_vars(BotActs)

----------------------------------------------------------------------------
(* The state machine of team_size lookups: two callers, each with a player *)
(* count and a quest number, each making its call.                         *)

Counts == 0..MaxCount

Rounds == 0..6

InitLookup ==
    /\ state = NoState
    /\ store = EmptyBag
    /\ faults = 0
    /\ lock = None
    /\ scenario = "lookup"
    /\ tasks \in [Tasks -> {[IdleTask EXCEPT !.call = <<n, q>>] :
                                n \in Counts, q \in Rounds}]

Lookup ==
    \E t \in Tasks :
        /\ tasks[t].pc = "idle"
        /\ LET r == team_size_call(tasks[t].call[1], tasks[t].call[2])
           IN  tasks' = [tasks EXCEPT ![t].pc = "returned",
                                     ![t].result = r.value,
                                     ![t].err = r.err]
        /\ UNCHANGED <<state, store, scenario, faults, lock>>

NextLookup == Lookup

SpecLookup == InitLookup /\ [][NextLookup]_vars

----------------------------------------------------------------------------
(* Claims.                                                                 *)

PhaseEdges ==
    {<<"team_proposal", "team_vote">>, <<"team_proposal", "quest">>,
     <<"team_vote", "quest">>, <<"team_vote", "team_proposal">>,
     <<"quest", "team_proposal">>, <<"quest", "lady_of_lake">>,
     <<"quest", "assassination">>, <<"quest", "game_over">>,
     <<"lady_of_lake", "team_proposal">>, <<"assassination", "game_over">>}

\* C1: every phase change made by start_game or apply_action follows an edge of
\* the phase graph: start takes lobby to team_proposal; an action takes one of
\* the edges of PhaseEdges, team_proposal -> quest only as a hammered proposal;
\* and no state has phase quest_result.
C1_PhaseEdges ==
    Created =>
        /\ state.phase \in Phase \ {"quest_result"}
        /\ \A deal \in Deals(state) :
               LET r == start_game(state, store, deal)
               IN  r.state.phase # state.phase =>
                       state.phase = "lobby" /\ r.state.phase = "team_proposal"
        /\ \A c \in Calls(state) :
               LET r == Act(state, store, c)
               IN  r.state.phase # state.phase =>
                       /\ <<state.phase, r.state.phase>> \in PhaseEdges
                       /\ (state.phase = "team_proposal" /\ r.state.phase = "quest") =>
                              /\ state.config.hammer_auto_approve
                              /\ state.proposal_attempts >= HammerThreshold

\* A game that passed through the lady interlude and ended by assassination.
C1_Witness ==
    /\ Created
    /\ state.phase = "game_over"
    /\ state.assassin_target # None
    /\ state.lady_history # <<>>

\* C2: a create_game or apply_action call that raises leaves the game state as
\* it was and appends nothing to the store.
C2_FailureLeavesState ==
    /\ \A req \in CreateRequests :
           LET r == create_game(state, store, req)
           IN  r.err # None => r.state = state /\ r.store = store
    /\ \A c \in Calls(state) :
           LET r == Act(state, store, c)
           IN  r.err # None => r.state = state /\ r.store = store

\* A quest under way with a vote recorded, in which a sabotage by a loyal
\* member, a vote by a non-member, a malformed vote, an action of another phase,
\* an unknown caller, an unknown action type and an empty chat message are
\* each refused.
C2_Witness ==
    /\ Created
    /\ state.phase = "quest"
    /\ state.quest_votes # EmptyDict
    /\ \A e \in {"Loyal players must submit success",
                 "Only team members vote on quest",
                 "Success must be boolean",
                 "Not in team proposal phase",
                 "Unknown player",
                 "Unknown action",
                 "Message required"} :
           \E c \in Calls(state) : Act(state, store, c).err = e

\* C3: the public view carries no role and no inspection history; the private
\* view of a player carries that player's own role and nobody else's.
C3_RolesHidden ==
    Created =>
        /\ \A i \in 1..Len(state.players) : public_state(state).players[i].role = None
        /\ public_state(state).lady_history = <<>>
        /\ \A pid \in PlayerIds(state) :
               LET view == private_state(state, pid)
               IN  /\ view.lady_history = <<>>
                   /\ \A i \in 1..Len(view.players) :
                          view.players[i].role =
                              IF view.players[i].id = pid
                              THEN state.players[i].role
                              ELSE None

\* Roles dealt and an inspection on record: both are there to be hidden.
C3_Witness ==
    /\ Created
    /\ state.started
    /\ \A i \in 1..Len(state.players) : state.players[i].role # None
    /\ state.lady_history # <<>>

\* C4: the public view does not tell which way a member voted on the quest in
\* progress.  A member of evil alignment may vote either way, so the state with
\* that member's recorded vote flipped is reachable as well; the two states
\* differ only in the vote's value and must have the same public view.
C4_QuestVotesHidden ==
    (Created /\ state.phase = "quest") =>
        \A pid \in DOMAIN state.quest_votes :
            alignment_for(get_player(state, pid).role) = "evil" =>
                public_state([state EXCEPT !.quest_votes[pid] = ~@])
                    = public_state(state)

\* C5: the winner is set exactly when the game is over.
C5_WinnerIffGameOver ==
    Created => ((state.winner # None) <=> (state.phase = "game_over"))

\* A game over with a winner and no assassination: three quests failed.
C5_Witness ==
    /\ Created
    /\ state.phase = "game_over"
    /\ state.winner = "evil"
    /\ state.assassin_target = None

\* C6: at most five quests are resolved, and neither the success count nor the
\* fail count passes three; the counts agree with the quest history.
C6_QuestCounts ==
    Created =>
        /\ state.success_count \in 0..3
        /\ state.fail_count \in 0..3
        /\ state.success_count + state.fail_count <= 5
        /\ Len(state.quest_history) = state.success_count + state.fail_count
        /\ state.quest_number <= 5

\* A game decided by the fifth quest.
C6_Witness ==
    /\ Created
    /\ state.success_count + state.fail_count = 5

\* A call makes the leadership rotate when it completes a rejected ballot, or
\* resolves a quest after which the quest rounds go on.
Rotates(s, st, r) ==
    \/ /\ s.phase = "team_vote"
       /\ CopiesIn("team_rejected", r.store) > CopiesIn("team_rejected", st)
    \/ /\ s.phase = "quest"
       /\ CopiesIn("quest_resolved", r.store) > CopiesIn("quest_resolved", st)
       /\ r.state.phase \in {"team_proposal", "lady_of_lake"}

C8_ProposedTeam ==
    Created =>
        /\ NoDuplicates(state.proposed_team)
        /\ SeqToSet(state.proposed_team) \subseteq PlayerIds(state)
        /\ IF state.phase \in {"team_vote", "quest"}
           THEN Len(state.proposed_team)
                    = team_size(state.config.player_count, state.quest_number)
           ELSE state.proposed_team = <<>>
        /\ \A deal \in Deals(state) :
               start_game(state, store, deal).state.proposed_team = state.proposed_team
        /\ \A c \in Calls(state) :
               LET r == Act(state, store, c)
               IN  /\ (r.state.proposed_team # state.proposed_team
                          /\ r.state.proposed_team # <<>>) =>
                          /\ c[2] = "propose_team"
                          /\ c[1] = LeaderId(state)
                          /\ state.proposed_team = <<>>
                   /\ r.state.proposed_team # <<>> =>
                          r.state.leader_index = state.leader_index

\* A three-member team on the table, proposed by a leader other than seat 0.
C8_Witness ==
    /\ Created
    /\ state.phase = "team_vote"
    /\ Len(state.proposed_team) = 3
    /\ state.leader_index # 0

\* C9: every key of quest_votes is a member of the proposed team; quest votes
\* exist only in the quest phase, and none exist when a proposal has just been
\* made.
C9_QuestVotesWithinTeam ==
    Created =>
        /\ DOMAIN state.quest_votes \subseteq SeqToSet(state.proposed_team)
        /\ state.phase # "quest" => state.quest_votes = EmptyDict
        /\ \A c \in Calls(state) :
               LET r == Act(state, store, c)
               IN  (c[2] = "propose_team" /\ r.err = None) =>
                       r.state.quest_votes = EmptyDict

\* The second quest or a later one under way, with a vote recorded and one
\* member still to vote.
C9_Witness ==
    /\ Created
    /\ state.phase = "quest"
    /\ state.quest_history # <<>>
    /\ state.quest_votes # EmptyDict
    /\ DOMAIN state.quest_votes # SeqToSet(state.proposed_team)

\* C10 as stated: team_votes contains no id that is not a member of the
\* proposed team.
C10_TeamVotesWithinTeam ==
    Created => DOMAIN state.team_votes \subseteq SeqToSet(state.proposed_team)

\* C10 amended: every key of team_votes is the id of a player of the game (every
\* player votes on a proposal, member of the team or not), and the votes belong
\* to the proposal on the table: team_votes is empty whenever proposed_team is
\* empty, and empty right after a proposal is made.
C10_TeamVotesOfPlayers ==
    Created =>
        /\ DOMAIN state.team_votes \subseteq PlayerIds(state)
        /\ state.proposed_team = <<>> => state.team_votes = EmptyDict
        /\ \A c \in Calls(state) :
               LET r == Act(state, store, c)
               IN  (c[2] = "propose_team" /\ r.err = None) =>
                       r.state.team_votes = EmptyDict

\* A ballot in progress in which a player outside the team has voted, after an
\* earlier proposal was rejected.
C10_Witness ==
    /\ Created
    /\ state.phase = "team_vote"
    /\ state.proposal_attempts > 0
    /\ \E pid \in DOMAIN state.team_votes : pid \notin SeqToSet(state.proposed_team)

\* The vote map after player pid's vote b is written into it.
WithVote(votes, pid, b) == DictSet(votes, pid, b)

Sabotages(votes) == Cardinality({k \in DOMAIN votes : ~votes[k]})

Last(q) == q[Len(q)]

QuestVoteOf(b) == Dict1("success", VBool(b))

\* C11: in the quest phase, a sabotage by a loyal member of the team is refused
\* and records nothing; a vote of either value by an evil member is accepted
\* and recorded, in quest_votes while the quest is open and in the sabotage
\* count of the quest's record when it completes the quest.
C11_LoyalCannotSabotage ==
    (Created /\ state.phase = "quest") =>
        \A pid \in SeqToSet(state.proposed_team), b \in BOOLEAN :
            LET r == apply_action(state, store, pid, "quest_vote", QuestVoteOf(b))
                votes == WithVote(state.quest_votes, pid, b)
            IN  IF get_player(state, pid).role \in EVIL_ROLES
                THEN /\ r.err = None
                     /\ CopiesIn("quest_vote", r.store)
                            = CopiesIn("quest_vote", store) + 1
                     /\ IF r.state.phase = "quest"
                        THEN r.state.quest_votes = votes
                        ELSE Last(r.state.quest_history).fails = Sabotages(votes)
                ELSE ~b => /\ r.err = "Loyal players must submit success"
                           /\ r.state = state
                           /\ r.store = store

\* A quest with a sabotage by an evil member on record and a loyal member
\* still to vote.
C11_Witness ==
    /\ Created
    /\ state.phase = "quest"
    /\ \E pid \in DOMAIN state.quest_votes :
           /\ ~state.quest_votes[pid]
           /\ get_player(state, pid).role \in EVIL_ROLES
    /\ \E pid \in SeqToSet(state.proposed_team) \ DOMAIN state.quest_votes :
           get_player(state, pid).role \notin EVIL_ROLES

TeamVoteOf(b) == Dict1("approve", VBool(b))

Approvals(votes) == Cardinality({k \in DOMAIN votes : votes[k]})

Emitted(event_type, st, r) == CopiesIn(event_type, r.store) - CopiesIn(event_type, st)

\* C12: a team vote by any player is recorded under that player's id, replacing
\* the player's earlier vote if there is one; the ballot is resolved by the vote
\* that gives every player a recorded vote and by no earlier one; it approves
\* the team exactly when the approvals recorded are more than the rejections,
\* so a tie rejects.
C12_StrictMajority ==
    (Created /\ state.phase = "team_vote") =>
        \A pid \in PlayerIds(state), b \in BOOLEAN :
            LET r == apply_action(state, store, pid, "vote_team", TeamVoteOf(b))
                votes == WithVote(state.team_votes, pid, b)
                approvals == Approvals(votes)
                rejections == Cardinality(DOMAIN votes) - approvals
                resolved == Emitted("team_approved", store, r)
                                + Emitted("team_rejected", store, r) = 1
            IN  /\ r.err = None
                /\ Emitted("team_vote", store, r) = 1
                /\ resolved <=> (DOMAIN votes = PlayerIds(state))
                /\ ~resolved =>
                       /\ r.state.team_votes = votes
                       /\ r.state.phase = "team_vote"
                       /\ Emitted("team_approved", store, r) = 0
                       /\ Emitted("team_rejected", store, r) = 0
                /\ resolved =>
                       IF approvals > rejections
                       THEN /\ Emitted("team_approved", store, r) = 1
                            /\ r.state.phase = "quest"
                       ELSE /\ Emitted("team_rejected", store, r) = 1
                            /\ r.state.phase = "team_proposal"

\* Six players, five votes in, three of them approvals: the last vote can make
\* it three against three, and the team is then rejected.
C12_Witness ==
    /\ Created
    /\ state.phase = "team_vote"
    /\ Len(state.players) = 6
    /\ Cardinality(DOMAIN state.team_votes) = 5
    /\ Approvals(state.team_votes) = 3
    /\ \E pid \in PlayerIds(state) \ DOMAIN state.team_votes :
           apply_action(state, store, pid, "vote_team", TeamVoteOf(FALSE)).state.phase
               = "team_proposal"

\* C13: the vote that resolves a ballot as rejected raises the rejection
\* counter by one, empties proposed_team and team_votes, moves leader_index one
\* seat on (wrapping) and returns to team_proposal; the one that resolves it as
\* approved moves to quest with the counter at 0 and proposed_team as it was.
\* Either way quest_number, success_count, fail_count, quest_history and every
\* other field stay as they were.
C13_VoteResolution ==
    (Created /\ state.phase = "team_vote") =>
        \A pid \in PlayerIds(state), b \in BOOLEAN :
            LET r == apply_action(state, store, pid, "vote_team", TeamVoteOf(b))
            IN  /\ Emitted("team_rejected", store, r) = 1 =>
                       /\ r.state.proposal_attempts = state.proposal_attempts + 1
                       /\ r.state.leader_index
                              = (state.leader_index + 1) % Len(state.players)
                       /\ r.state = [state EXCEPT
                                        !.proposal_attempts = r.state.proposal_attempts,
                                        !.leader_index = r.state.leader_index,
                                        !.proposed_team = <<>>,
                                        !.team_votes = EmptyDict,
                                        !.phase = "team_proposal"]
                /\ Emitted("team_approved", store, r) = 1 =>
                       r.state = [state EXCEPT
                                     !.proposal_attempts = 0,
                                     !.team_votes = WithVote(state.team_votes, pid, b),
                                     !.phase = "quest"]

\* The second ballot of a round, one vote short, with the last seat leading:
\* the last vote can reject it (the counter goes to 2, the lead wraps to seat
\* 0) or approve it (the counter returns to 0).
C13_Witness ==
    /\ Created
    /\ state.phase = "team_vote"
    /\ state.proposal_attempts = 1
    /\ state.leader_index = Len(state.players) - 1
    /\ \E pid \in PlayerIds(state) \ DOMAIN state.team_votes :
           /\ Emitted("team_rejected", store,
                      apply_action(state, store, pid, "vote_team", TeamVoteOf(FALSE))) = 1
           /\ Emitted("team_approved", store,
                      apply_action(state, store, pid, "vote_team", TeamVoteOf(TRUE))) = 1

ProposalOf(team) == Dict1("team", VList(team))

\* C14: a valid proposal by the leader (a team of the size the table gives for
\* the game's player count) is accepted; an accepted proposal moves straight
\* to quest when the hammer rule is enabled and the rejection counter has
\* reached 4, and to team_vote when the counter is below 4 or the rule is
\* disabled; with the rule enabled the counter never passes 4.
C14_Hammer ==
    Created =>
        /\ state.config.hammer_auto_approve => state.proposal_attempts <= 4
        /\ state.phase = "team_proposal" =>
               LET r == apply_action(state, store, LeaderId(state), "propose_team",
                                     ProposalOf(GoodTeam(state)))
               IN  /\ team_size_supported(state.config.player_count) => r.err = None
                   /\ r.err = None =>
                          /\ r.state.proposed_team = GoodTeam(state)
                          /\ r.state.proposal_attempts = state.proposal_attempts
                          /\ IF state.config.hammer_auto_approve
                                /\ state.proposal_attempts >= 4
                             THEN /\ r.state.phase = "quest"
                                  /\ Emitted("team_hammered", store, r) = 1
                             ELSE /\ r.state.phase = "team_vote"
                                  /\ Emitted("team_hammered", store, r) = 0

\* A hammered team on its quest: four rejections, no vote taken on the fifth
\* proposal.
C14_Witness ==
    /\ Created
    /\ state.config.hammer_auto_approve
    /\ state.phase = "quest"
    /\ state.proposal_attempts = 4
    /\ state.team_votes = EmptyDict
    /\ CopiesIn("team_hammered", store) = 1

\* The number of sabotage votes that fails a quest.
FailThreshold(s) ==
    IF s.config.player_count >= 7 /\ s.quest_number = 4 THEN 2 ELSE 1

\* C15: an accepted quest vote resolves the quest exactly when it gives every
\* member of the team a recorded vote; the quest fails exactly when the
\* sabotage votes number at least the threshold (2 for seven or more players in
\* round 4, else 1); resolving appends one QuestRecord with the round, the team,
\* the sabotage count and the outcome, and adds one to success_count or to
\* fail_count, never both; a vote that does not resolve changes none of these.
C15_QuestResolution ==
    (Created /\ state.phase = "quest") =>
        \A pid \in SeqToSet(state.proposed_team), b \in BOOLEAN :
            LET r == apply_action(state, store, pid, "quest_vote", QuestVoteOf(b))
                votes == WithVote(state.quest_votes, pid, b)
                resolved == Emitted("quest_resolved", store, r) = 1
                failed == Sabotages(votes) >= FailThreshold(state)
            IN  r.err = None =>
                    /\ resolved <=> (DOMAIN votes = SeqToSet(state.proposed_team))
                    /\ ~resolved =>
                           /\ Emitted("quest_resolved", store, r) = 0
                           /\ r.state.quest_history = state.quest_history
                           /\ r.state.success_count = state.success_count
                           /\ r.state.fail_count = state.fail_count
                    /\ resolved =>
                           /\ r.state.quest_history =
                                  Append(state.quest_history,
                                         [quest_number |-> state.quest_number,
                                          team |-> state.proposed_team,
                                          fails |-> Sabotages(votes),
                                          succeeded |-> ~failed])
                           /\ r.state.success_count =
                                  state.success_count + (IF failed THEN 0 ELSE 1)
                           /\ r.state.fail_count =
                                  state.fail_count + (IF failed THEN 1 ELSE 0)

\* Seven players, round 4, one sabotage on record and one member still to vote:
\* that member's success completes a quest that succeeds despite the sabotage.
C15_Witness ==
    /\ Created
    /\ state.phase = "quest"
    /\ state.config.player_count = 7
    /\ state.quest_number = 4
    /\ Sabotages(state.quest_votes) = 1
    /\ \E pid \in SeqToSet(state.proposed_team) \ DOMAIN state.quest_votes :
           LET r == apply_action(state, store, pid, "quest_vote", QuestVoteOf(TRUE))
           IN  /\ Emitted("quest_resolved", store, r) = 1
               /\ Last(r.state.quest_history).succeeded
               /\ Last(r.state.quest_history).fails = 1

RolesOf(s) == SeqToSet(s.config.roles)

\* C16: the quest vote that brings success_count to 3 ends the game at once
\* with a loyal victory if the configured role set has no Assassin, and
\* otherwise moves to assassination with no winner declared.  Every game
\* create_game accepts has both Merlin and the Assassin in its role set, and
\* once started has dealt both, so it is the second case that occurs.
C16_ThirdSuccess ==
    Created =>
        /\ {Merlin, Assassin} \subseteq RolesOf(state)
        /\ state.started =>
               \A role \in {Merlin, Assassin} :
                   \E i \in 1..Len(state.players) : state.players[i].role = role
        /\ state.success_count = 3 => state.phase \in {"assassination", "game_over"}
        /\ state.phase = "quest" =>
               \A pid \in SeqToSet(state.proposed_team), b \in BOOLEAN :
                   LET r == apply_action(state, store, pid, "quest_vote", QuestVoteOf(b))
                   IN  (r.err = None /\ r.state.success_count = 3) =>
                           IF Assassin \notin RolesOf(state)
                           THEN /\ r.state.phase = "game_over"
                                /\ r.state.winner = "loyal"
                           ELSE /\ r.state.phase = "assassination"
                                /\ r.state.winner = None
                                /\ r.state.assassin_target = None

\* The third success has just been recorded: the assassin is to act.
C16_Witness ==
    /\ Created
    /\ state.phase = "assassination"
    /\ state.success_count = 3
    /\ Last(state.quest_history).succeeded
    /\ state.winner = None

\* C17: the quest vote that brings fail_count to 3 ends the game with an evil
\* victory; a game with three failed quests has never been in the assassination
\* phase (fewer than three successes, no assassination event, no target); and
\* evil has won only if three quests failed or the assassin's target held
\* Merlin.
C17_ThirdFailure ==
    Created =>
        /\ state.fail_count = 3 =>
               /\ state.phase = "game_over"
               /\ state.winner = "evil"
               /\ state.success_count < 3
               /\ state.assassin_target = None
               /\ CopiesIn("assassination", store) = 0
        /\ (state.phase = "game_over" /\ state.winner = "evil") =>
               \/ state.fail_count = 3
               \/ /\ state.assassin_target # None
                  /\ get_player(state, state.assassin_target).role = Merlin
        /\ state.phase = "quest" =>
               \A pid \in SeqToSet(state.proposed_team), b \in BOOLEAN :
                   LET r == apply_action(state, store, pid, "quest_vote", QuestVoteOf(b))
                   IN  (r.err = None /\ r.state.fail_count = 3) =>
                           /\ r.state.phase = "game_over"
                           /\ r.state.winner = "evil"

\* Two successes, two failures, and a sabotage about to fail the fifth quest.
C17_Witness ==
    /\ Created
    /\ state.phase = "quest"
    /\ state.success_count = 2
    /\ state.fail_count = 2
    /\ \E pid \in SeqToSet(state.proposed_team) :
           LET r == apply_action(state, store, pid, "quest_vote", QuestVoteOf(FALSE))
           IN  r.err = None /\ r.state.fail_count = 3

\* The target id a payload names, None when it names none.
TargetOf(payload) ==
    IF "target_id" \in DOMAIN payload THEN payload["target_id"].s ELSE None

RoleOf(s, player_id) == get_player(s, player_id).role

\* C18: an assassinate call is accepted exactly when the phase is assassination,
\* the caller holds the Assassin role and the payload names a known player;
\* when accepted it records the target, declares evil the winner if the target
\* holds Merlin and loyal otherwise, sets the phase to game_over and changes
\* nothing else.
C18_Assassinate ==
    Created =>
        \A c \in Calls(state) :
            c[2] = "assassinate" =>
                LET r == Act(state, store, c)
                    target == TargetOf(c[3])
                    valid == /\ state.phase = "assassination"
                             /\ c[1] \in PlayerIds(state)
                             /\ RoleOf(state, c[1]) = Assassin
                             /\ target \in PlayerIds(state)
                IN  /\ (r.err = None) <=> valid
                    /\ valid =>
                           /\ r.state = [state EXCEPT
                                            !.assassin_target = target,
                                            !.winner = IF RoleOf(state, target) = Merlin
                                                       THEN "evil" ELSE "loyal",
                                            !.phase = "game_over"]
                           /\ Emitted("assassination", store, r) = 1

\* The assassination phase, in which the assassin can name Merlin, name
\* somebody else, and is refused an unknown target, and another player is
\* refused altogether.
C18_Witness ==
    /\ Created
    /\ state.phase = "assassination"
    /\ \A outcome \in {"evil", "loyal"} :
           \E c \in Calls(state) :
               /\ c[2] = "assassinate"
               /\ Act(state, store, c).state.winner = outcome
    /\ \A e \in {"Only assassin can act", "Valid target_id required"} :
           \E c \in Calls(state) :
               /\ c[2] = "assassinate"
               /\ Act(state, store, c).err = e

\* C19: a quest vote that resolves a quest without either side reaching three
\* opens the next round in lady_of_lake when the ability is enabled and the new
\* round is 3 or later, whether or not the ability was used before the previous
\* round, and in team_proposal when the ability is disabled or the new round is
\* 2; with the ability disabled lady_of_lake is never entered.
C19_LadyEveryRound ==
    Created =>
        /\ ~state.config.lady_of_lake =>
               /\ state.phase # "lady_of_lake"
               /\ state.lady_history = <<>>
               /\ CopiesIn("lady_peek", store) = 0
        /\ state.phase = "quest" =>
               \A pid \in SeqToSet(state.proposed_team), b \in BOOLEAN :
                   LET r == apply_action(state, store, pid, "quest_vote", QuestVoteOf(b))
                   IN  (/\ Emitted("quest_resolved", store, r) = 1
                        /\ r.state.success_count < 3
                        /\ r.state.fail_count < 3) =>
                           /\ r.state.quest_number = state.quest_number + 1
                           /\ r.state.phase =
                                  IF state.config.lady_of_lake
                                     /\ r.state.quest_number >= 3
                                  THEN "lady_of_lake"
                                  ELSE "team_proposal"

\* The interlude opens round 5 after it was used before rounds 3 and 4.
C19_Witness ==
    /\ Created
    /\ state.phase = "lady_of_lake"
    /\ state.quest_number = 5
    /\ Len(state.lady_history) = 2
    /\ state.lady_last_used_quest = 3

\* C20: a lady_peek call is accepted exactly when the phase is lady_of_lake,
\* the caller holds the ability and the payload names a known player other than
\* the caller; when accepted it appends one history entry with the holder, the
\* target and the alignment of the target's actual role, makes the target the
\* holder, notes the use and returns to team_proposal; leader_index,
\* quest_number, the rejection counter, the success and fail counts and every
\* other field stay as they were.
C20_LadyPeek ==
    Created =>
        \A c \in Calls(state) :
            c[2] = "lady_peek" =>
                LET r == Act(state, store, c)
                    target == TargetOf(c[3])
                    valid == /\ state.phase = "lady_of_lake"
                             /\ c[1] \in PlayerIds(state)
                             /\ c[1] = state.lady_holder_id
                             /\ target \in PlayerIds(state)
                             /\ target # c[1]
                IN  /\ (r.err = None) <=> valid
                    /\ valid =>
                           /\ r.state =
                                  [state EXCEPT
                                      !.lady_history =
                                          Append(@, [holder_id |-> c[1],
                                                     target_id |-> target,
                                                     alignment |->
                                                         IF RoleOf(state, target)
                                                                \in EVIL_ROLES
                                                         THEN "evil" ELSE "loyal"]),
                                      !.lady_holder_id = target,
                                      !.lady_last_used_quest = state.quest_number - 1,
                                      !.phase = "team_proposal"]
                           /\ Emitted("lady_peek", store, r) = 1

\* The interlude with the ability already passed on once: the holder can
\* inspect an evil player or a loyal one, and is refused itself as a target.
C20_Witness ==
    /\ Created
    /\ state.phase = "lady_of_lake"
    /\ state.lady_history # <<>>
    /\ state.lady_holder_id = Last(state.lady_history).target_id
    /\ \A a \in {"evil", "loyal"} :
           \E c \in Calls(state) :
               LET r == Act(state, store, c)
               IN  /\ c[2] = "lady_peek"
                   /\ r.err = None
                   /\ Last(r.state.lady_history).alignment = a
    /\ \E c \in Calls(state) :
           /\ c[2] = "lady_peek"
           /\ Act(state, store, c).err = "Cannot target yourself"

\* The positions in the inspection history of the inspections made by q.
InspectionsBy(s, q) == {i \in 1..Len(s.lady_history) : s.lady_history[i].holder_id = q}

\* The k-th of a set of positions, in increasing order.
Kth(positions, k) ==
    CHOOSE i \in positions : Cardinality({j \in positions : j <= i}) = k

\* C21: the public view and the state inside every private view carry no
\* inspection history; the inspection facts in the private view of a player q
\* are, in order, the target and alignment of exactly the inspections q made as
\* holder, so an inspection made by another holder adds nothing to q's view.
C21_InspectionPrivate ==
    Created =>
        /\ public_state(state).lady_history = <<>>
        /\ \A q \in PlayerIds(state) :
               LET view == private_state_for(state, q)
                   mine == InspectionsBy(state, q)
               IN  /\ view.state.lady_history = <<>>
                   /\ Len(view.lady_knowledge) = Cardinality(mine)
                   /\ \A k \in 1..Len(view.lady_knowledge) :
                          LET entry == state.lady_history[Kth(mine, k)]
                          IN  view.lady_knowledge[k] =
                                  [target |-> entry.target_id,
                                   alignment |-> entry.alignment]

\* Three inspections by three holders in turn: each of them made one, and the
\* other players none.
C21_Witness ==
    /\ Created
    /\ Len(state.lady_history) = 3
    /\ Cardinality({q \in PlayerIds(state) :
                       Cardinality(InspectionsBy(state, q)) = 1}) = 3
    /\ \E q \in PlayerIds(state) : private_state_for(state, q).lady_knowledge = <<>>

\* The state in which the holders of Merlin and Morgana have exchanged roles:
\* the state the other order of the same shuffle would have dealt.
SwapMerlinMorgana(s) ==
    [s EXCEPT !.players =
        [i \in 1..Len(s.players) |->
            [s.players[i] EXCEPT !.role = IF @ = Merlin THEN Morgana
                                         ELSE IF @ = Morgana THEN Merlin
                                         ELSE @]]]

HoldersOf(s, roles) ==
    {s.players[i].id : i \in {j \in 1..Len(s.players) : s.players[j].role \in roles}}

\* C22: in a game with Merlin and Morgana dealt and no quest vote cast yet,
\* Percival's visibility table marks exactly the holders of Merlin and Morgana
\* as Merlin candidates, and Percival's knowledge facts and visibility table
\* are the same in the state where those two players hold each other's role.
C22_PercivalCannotTell ==
    (/\ Created
     /\ state.started
     /\ CopiesIn("quest_vote", store) = 0
     /\ HoldersOf(state, {Merlin}) # {}
     /\ HoldersOf(state, {Morgana}) # {}) =>
        \A q \in HoldersOf(state, {Percival}) :
            LET table == visibility_for(state, q)
                swapped == SwapMerlinMorgana(state)
            IN  /\ {table[i].id : i \in {j \in 1..Len(table) :
                                           table[j].alignment_hint = "merlin_candidate"}}
                       = HoldersOf(state, {Merlin, Morgana})
                /\ Cardinality(HoldersOf(state, {Merlin, Morgana})) = 2
                /\ visibility_for(swapped, q) = table
                /\ knowledge_for(swapped, q) = knowledge_for(state, q)

\* The ids a visibility table marks with a hint.
Hinted(table, hint) ==
    {table[i].id : i \in {j \in 1..Len(table) : table[j].alignment_hint = hint}}

\* The names the knowledge facts mention.
NamesIn(facts) == UNION {SeqToSet(facts[i].names) : i \in 1..Len(facts)}

\* C23: for every player, whatever the deal: an evil player other than Oberon
\* is shown as evil exactly the evil players other than Oberon, and is told the
\* names of the others among them; Oberon is shown and told no other player;
\* Merlin is shown and told exactly the evil players other than Mordred; a Loyal
\* Servant, and every player before the deal, is told nothing and sees every
\* hint 'unknown'.  No table entry carries a role hint.
C23_VisibilityRules ==
    Created =>
        \A q \in PlayerIds(state) :
            LET role == RoleOf(state, q)
                table == visibility_for(state, q)
                facts == knowledge_for(state, q)
                shown == Hinted(table, "evil")
            IN  /\ Len(table) = Len(state.players)
                /\ \A i \in 1..Len(table) :
                       /\ table[i].id = state.players[i].id
                       /\ table[i].role_hint = None
                /\ role \in EVIL_ROLES \ {Oberon} =>
                       /\ shown = HoldersOf(state, EVIL_ROLES \ {Oberon})
                       /\ NamesIn(facts) = shown \ {q}
                       /\ Hinted(table, "unknown") = PlayerIds(state) \ shown
                /\ role = Oberon =>
                       /\ shown \ {q} = {}
                       /\ NamesIn(facts) = {}
                       /\ Hinted(table, "unknown") = PlayerIds(state) \ {q}
                /\ role = Merlin =>
                       /\ shown = HoldersOf(state, EVIL_ROLES \ {Mordred})
                       /\ NamesIn(facts) = shown
                       /\ Hinted(table, "unknown") = PlayerIds(state) \ shown
                /\ role \in {LoyalServant, None} =>
                       /\ facts = <<>>
                       /\ Hinted(table, "unknown") = PlayerIds(state)

\* A deal with Merlin, Mordred, Oberon, another evil player and a Loyal Servant
\* at the table.
C23_Witness ==
    /\ Created
    /\ state.started
    /\ \A role \in {Merlin, Mordred, Oberon, Assassin, Morgana, LoyalServant} :
           HoldersOf(state, {role}) # {}

\* C24: start_game on a started game, whatever the shuffle would deal and
\* whatever the phase, returns without raising, changes no field of the state
\* and appends no event.
C24_StartIdempotent ==
    (Created /\ state.started) =>
        \A deal \in Deals(state) :
            start_game(state, store, deal) = Result(state, store, None)

\* A game well under way, where a second start would show: another deal is
\* possible, the lead, the round and the ability holder have moved on, and a
\* quest is in progress.
C24_Witness ==
    /\ Created
    /\ state.started
    /\ state.phase = "quest"
    /\ state.quest_votes # EmptyDict
    /\ state.quest_number >= 3
    /\ state.leader_index # 0
    /\ state.lady_holder_id \notin {None, state.players[1].id}
    /\ \E deal \in Deals(state) :
           deal # [i \in 1..Len(state.players) |-> state.players[i].role]

\* The roles held by the players, as a bag.
RolesHeld(s) ==
    LET held == {i \in 1..Len(s.players) : TRUE}
    IN  [role \in {s.players[i].role : i \in held} |->
            Cardinality({i \in held : s.players[i].role = role})]

\* A list of roles, as a bag.
RoleBag(roles) ==
    [role \in SeqToSet(roles) |->
        Cardinality({i \in 1..Len(roles) : roles[i] = role})]

\* C25: starting any game create_game accepted deals every player a role, the
\* roles held being the configured roles with their multiplicities, with Merlin
\* held by exactly one player and the Assassin by exactly one; the lead is at
\* seat 0, the round is 1, the rejection counter 0, the phase team_proposal, and
\* the ability is held by the first player if enabled and by nobody otherwise.
C25_AfterStart ==
    (Created /\ ~state.started) =>
        \A deal \in Deals(state) :
            LET r == start_game(state, store, deal)
            IN  /\ r.err = None
                /\ \A i \in 1..Len(r.state.players) : r.state.players[i].role # None
                /\ RolesHeld(r.state) = RoleBag(r.state.config.roles)
                /\ Cardinality(HoldersOf(r.state, {Merlin})) = 1
                /\ Cardinality(HoldersOf(r.state, {Assassin})) = 1
                /\ r.state.started
                /\ r.state.leader_index = 0
                /\ r.state.quest_number = 1
                /\ r.state.proposal_attempts = 0
                /\ r.state.phase = "team_proposal"
                /\ r.state.lady_holder_id =
                       IF r.state.config.lady_of_lake THEN r.state.players[1].id
                       ELSE None

\* A request that names its roles and breaks one of the rules for them.
BadRoleList(req) ==
    /\ req.roles # <<>>
    /\ \/ Len(req.roles) # Len(req.players)
       \/ Merlin \notin SeqToSet(req.roles)
       \/ Assassin \notin SeqToSet(req.roles)
       \/ Morgana \in SeqToSet(req.roles) /\ Percival \notin SeqToSet(req.roles)

\* C26: create_game raises, and leaves the game there was and the event log as
\* they were, whenever the role list has not one role per player, lacks Merlin
\* or the Assassin, or has Morgana without Percival; so does a request without
\* roles for a player count that has no default role set.
C26_CreateRefuses ==
    \A req \in CreateRequests :
        LET r == create_game(state, store, req)
        IN  (\/ BadRoleList(req)
             \/ req.roles = <<>> /\ Len(req.players) \notin 5..10) =>
                /\ r.err # None
                /\ r.state = state
                /\ r.store = store

\* A game in the middle of a quest, with its events in the log, against which
\* each rule refuses a request.
C26_Witness ==
    /\ Created
    /\ state.phase = "quest"
    /\ state.quest_votes # EmptyDict
    /\ CopiesIn("team_approved", store) > 0
    /\ \A e \in {"Unsupported player count or roles not provided",
                 "Role count must match player count",
                 "Morgana requires Percival",
                 "Merlin and Assassin are required roles"} :
           \E req \in CreateRequests : create_game(state, store, req).err = e
    /\ Cardinality({req \in CreateRequests : BadRoleList(req)}) = 4

\* C27: create_game with an acceptable request, whatever the state of the game
\* before it, installs a fresh game: the request's players and configuration,
\* phase lobby, not started, counters at zero, no proposal, votes, history,
\* chat, winner, target or ability holder; the log then holds the game_created
\* event and nothing else.
C27_CreateReplaces ==
    \A req \in GoodRequests :
        LET r == create_game(state, store, req)
        IN  /\ r.err = None
            /\ r.store = SetToBag({"game_created"})
            /\ BagCardinality(r.store) = 1
            /\ r.state.players = req.players
            /\ r.state.config.player_count = Len(req.players)
            /\ r.state.config.hammer_auto_approve = req.hammer_auto_approve
            /\ r.state.config.lady_of_lake = req.lady_of_lake
            /\ r.state.phase = "lobby"
            /\ ~r.state.started
            /\ r.state.leader_index = 0
            /\ r.state.quest_number = 1
            /\ r.state.proposal_attempts = 0
            /\ r.state.success_count = 0
            /\ r.state.fail_count = 0
            /\ r.state.proposed_team = <<>>
            /\ r.state.team_votes = EmptyDict
            /\ r.state.quest_votes = EmptyDict
            /\ r.state.quest_history = <<>>
            /\ r.state.lady_history = <<>>
            /\ r.state.chat = <<>>
            /\ r.state.winner = None
            /\ r.state.assassin_target = None
            /\ r.state.lady_holder_id = None

\* A finished game with quests, inspections and an assassination on record and
\* more than ten events in the log, about to be replaced.
C27_Witness ==
    /\ Created
    /\ state.phase = "game_over"
    /\ state.quest_history # <<>>
    /\ state.lady_history # <<>>
    /\ state.assassin_target # None
    /\ BagCardinality(store) > 10
    /\ GoodRequests # {}

\* The number of events a call adds to the log.
Appended(st, r) == BagCardinality(r.store) - BagCardinality(st)

\* The event an accepted action appends for itself.
EventOf(action_type) ==
    CASE action_type = "chat" -> "chat"
      [] action_type = "propose_team" -> "team_proposed"
      [] action_type = "vote_team" -> "team_vote"
      [] action_type = "quest_vote" -> "quest_vote"
      [] action_type = "lady_peek" -> "lady_peek"
      [] action_type = "assassinate" -> "assassination"

\* The events an accepted action may append for what it resolves.
ResolutionEvents(action_type) ==
    CASE action_type = "propose_team" -> {"team_hammered"}
      [] action_type = "vote_team" -> {"team_approved", "team_rejected"}
      [] action_type = "quest_vote" -> {"quest_resolved"}
      [] OTHER -> {}

\* An accepted action resolves something: a proposal is hammered into a quest,
\* a vote completes the ballot, a quest vote completes the quest.
Resolves(s, c, r) ==
    \/ c[2] = "propose_team" /\ r.state.phase = "quest"
    \/ c[2] = "vote_team" /\ r.state.phase # "team_vote"
    \/ c[2] = "quest_vote" /\ Len(r.state.quest_history) > Len(s.quest_history)

\* C28 as stated: every successful mutating operation, create, the first start
\* and each accepted action, leaves exactly one event more in the log (create:
\* exactly one event in the cleared log).
C28_ExactlyOneEvent ==
    /\ \A req \in GoodRequests :
           BagCardinality(create_game(state, store, req).store) = 1
    /\ (Created /\ ~state.started) =>
           \A deal \in Deals(state) :
               Appended(store, start_game(state, store, deal)) = 1
    /\ Created =>
           \A c \in Calls(state) :
               LET r == Act(state, store, c)
               IN  r.err = None => Appended(store, r) = 1

\* C28 amended: create leaves exactly the game_created event in the cleared
\* log, the first start appends exactly game_started, and every accepted
\* action appends exactly one event of its own; an action that also resolves
\* something (a hammered proposal, the vote completing a ballot, the quest vote
\* completing a quest) appends exactly one more event, that of the resolution,
\* and no operation appends more than two.
C28_EventsPerOperation ==
    /\ \A req \in GoodRequests :
           create_game(state, store, req).store = SetToBag({"game_created"})
    /\ (Created /\ ~state.started) =>
           \A deal \in Deals(state) :
               LET r == start_game(state, store, deal)
               IN  /\ r.err = None
                   /\ Appended(store, r) = 1
                   /\ Emitted("game_started", store, r) = 1
    /\ Created =>
           \A c \in Calls(state) :
               LET r == Act(state, store, c)
               IN  r.err = None =>
                      /\ Emitted(EventOf(c[2]), store, r) = 1
                      /\ IF Resolves(state, c, r)
                         THEN /\ Appended(store, r) = 2
                              /\ \E e \in ResolutionEvents(c[2]) :
                                     Emitted(e, store, r) = 1
                         ELSE Appended(store, r) = 1

\* A game whose log holds proposals hammered and rejected and quests resolved,
\* in a quest where one accepted vote resolves the quest and another does not.
C28_Witness ==
    /\ Created
    /\ \A e \in {"game_created", "game_started", "team_proposed", "team_vote",
                 "team_hammered", "team_rejected", "quest_vote",
                 "quest_resolved"} : CopiesIn(e, store) > 0
    /\ state.phase = "quest"
    /\ \E c \in Calls(state) :
           LET r == Act(state, store, c)
           IN  r.err = None /\ Resolves(state, c, r)
    /\ \E c \in Calls(state) :
           LET r == Act(state, store, c)
           IN  r.err = None /\ ~Resolves(state, c, r)

\* C29: an append to the event log that fails never aborts the operation it
\* belongs to: create, start and every accepted action make all of their state
\* changes, the same as when the append succeeds, so no state is left
\* partially updated.
C29_LogFailureHarmless ==
    /\ \A req \in GoodRequests :
           LET f == create_game_append_fails(state, store, req)
           IN  f.err = AppendError => f.state = create_game(state, store, req).state
    /\ \A deal \in Deals(state) :
           LET f == start_game_append_fails(state, store, deal)
           IN  f.err = AppendError => f.state = start_game(state, store, deal).state
    /\ Created =>
           \A c \in Calls(state), k \in Emits :
               LET f == apply_action_append_fails(state, store, c[1], c[2], c[3], k)
               IN  f.err = AppendError => f.state = Act(state, store, c).state

\* The callers inside the lock: past `async with self._lock`, not yet out.
Inside == {t \in Tasks : tasks[t].pc \in {"entered", "halfway", "finished"}}

\* The events that resolve a proposal, and those that make one.
Resolutions(st) ==
    CopiesIn("team_approved", st) + CopiesIn("team_rejected", st)
        + CopiesIn("team_hammered", st)

\* C30: create, start and act exclude one another.  Under every interleaving
\* of the callers' steps at most one caller is inside the lock, and it is the
\* holder; what it has done so far is its call applied to the game and the
\* log it found when it took the lock, and nothing else: after its first step
\* the first step's outcome, after its last the outcome of the whole call run
\* alone.  So the state and the log are those of the calls run one after the
\* other in the order they took the lock, and no proposal is resolved twice
\* and no quest resolved that was not approved.
C30_MutualExclusion ==
    /\ Cardinality(Inside) <= 1
    /\ \A t \in Tasks :
           LET task == tasks[t]
               alone == RunCall(task.before[1], task.before[2], task.call)
           IN  /\ t \in Inside <=> lock = t
               /\ task.pc = "entered" => <<state, store>> = task.before
               /\ task.pc = "halfway" =>
                      Result(state, store, None)
                          = first_step(task.before[1], task.before[2], task.call)
               /\ task.pc = "finished" =>
                      Result(state, store, task.err) = alone
    /\ Resolutions(store) <= CopiesIn("team_proposed", store)
    /\ CopiesIn("quest_resolved", store)
           <= CopiesIn("team_approved", store) + CopiesIn("team_hammered", store)

\* Two concurrent final votes: the ballot lacks two votes, both voters have
\* called vote_team, one is between the two steps of its handler with its
\* vote recorded, the other waits for the lock with the vote that completes
\* the ballot.
C30_Witness ==
    \E t, u \in Tasks :
        /\ t # u
        /\ tasks[t].pc = "halfway"
        /\ tasks[u].pc = "waiting"
        /\ tasks[t].call[1] = "act" /\ tasks[t].call[3] = "vote_team"
        /\ tasks[u].call[1] = "act" /\ tasks[u].call[3] = "vote_team"
        /\ tasks[t].call[2] # tasks[u].call[2]
        /\ state.phase = "team_vote"
        /\ Cardinality(DOMAIN state.team_votes) = Len(state.players) - 1
        /\ tasks[u].call[2] \notin DOMAIN state.team_votes

\* C31: no read is torn.  Whatever the event loop interleaves, the state a
\* projection starts from is a state between whole mutating operations, no
\* operation moves the engine while the projection runs, and the value
\* returned by public_state, private_state_for or pending_actions is that
\* projection of that one state: the copy and the knowledge of a private view
\* come from the same state.
C31_NoTornRead ==
    \A r \in Readers :
        LET task == tasks[r]
        IN  task.pc # "idle" =>
               /\ task.before[1] = task.before[2]
               /\ state = task.before[1]
               /\ \A t \in Writers : tasks[t].pc \notin {"entered", "halfway"}
               /\ task.pc = "copied" => task.result = public_state(task.before[1])
               /\ task.pc = "returned" =>
                      task.result = Project(task.before[1], task.call)

\* A private view being built while a vote that completes a ballot has been
\* sent and waits for the loop: the copy is made, the knowledge is not yet
\* computed.
C31_Witness ==
    \E r \in Readers, t \in Writers :
        /\ tasks[r].pc = "copied"
        /\ tasks[t].pc = "waiting"
        /\ tasks[t].call[1] = "act" /\ tasks[t].call[3] = "vote_team"
        /\ state.phase = "team_vote"
        /\ Cardinality(DOMAIN state.team_votes) = Len(state.players) - 1
        /\ RunCall(state, store, tasks[t].call).state.phase = "quest"
        /\ CopiesIn("quest_resolved", store) > 0

\* The phases a game goes through (Phase.quest_result is never assigned).
Phases ==
    {"lobby", "team_proposal", "team_vote", "quest", "lady_of_lake",
     "assassination", "game_over"}

\* C32: in every phase, before the start and after the end included, a chat
\* from a player of the game with a non-empty message is accepted, appends one
\* entry with the sender and the message at the end of the transcript and
\* changes no other field; a chat with an empty or a missing message is
\* refused and changes nothing.
C32_Chat ==
    Created =>
        /\ state.phase \in Phases
        /\ \A pid \in PlayerIds(state), payload \in ChatPayloads :
               LET r == Act(state, store, <<pid, "chat", payload>>)
                   message == Get(payload, "message", VStr(""))
               IN  IF message.tag = "str" /\ message.s # ""
                   THEN /\ r.err = None
                        /\ r.state = [state EXCEPT !.chat =
                                         Append(@, [player_id |-> pid,
                                                    message |-> message.s])]
                        /\ Len(r.state.chat) = Len(state.chat) + 1
                   ELSE /\ r.err = "Message required"
                        /\ r.state = state
                        /\ r.store = store

\* A finished game whose transcript already holds a message, where a further
\* message is accepted and an empty one refused.
C32_Witness ==
    /\ Created
    /\ state.phase = "game_over"
    /\ state.chat # <<>>
    /\ \E pid \in PlayerIds(state) :
           /\ Act(state, store, <<pid, "chat", Dict1("message", VStr("hi"))>>).err = None
           /\ Act(state, store, <<pid, "chat", EmptyDict>>).err # None

\* The players whose action the phase waits for.
Awaited(s) ==
    CASE s.phase = "team_proposal" -> {LeaderId(s)}
      [] s.phase = "team_vote" -> PlayerIds(s) \ DOMAIN s.team_votes
      [] s.phase = "quest" -> SeqToSet(s.proposed_team) \ DOMAIN s.quest_votes
      [] s.phase = "lady_of_lake" -> {s.lady_holder_id}
      [] s.phase = "assassination" ->
             {s.players[i].id : i \in {j \in 1..Len(s.players) :
                                          s.players[j].role = Assassin}}
      [] s.phase \in {"lobby", "game_over"} -> {}

\* C33: pending_actions returns exactly the players whose action is awaited:
\* the leader in team_proposal, the players without a recorded vote in
\* team_vote, the team members without a recorded vote in quest, the holder in
\* lady_of_lake, the Assassin in assassination, nobody in lobby and game_over;
\* each of them once, in the automated list if flagged automated and in the
\* human list otherwise.
C33_Pending ==
    Created =>
        LET p == pending_actions(state)
        IN  /\ SeqToSet(p.human) \cup SeqToSet(p.bot) = Awaited(state)
            /\ SeqToSet(p.human) \cap SeqToSet(p.bot) = {}
            /\ NoDuplicates(p.human)
            /\ NoDuplicates(p.bot)
            /\ \A id \in SeqToSet(p.bot) : get_player(state, id).is_bot
            /\ \A id \in SeqToSet(p.human) : ~get_player(state, id).is_bot

\* A ballot under way: some players have voted and are not listed, the others
\* are, humans and automated players both.
C33_Witness ==
    /\ Created
    /\ state.phase = "team_vote"
    /\ DOMAIN state.team_votes # {}
    /\ pending_actions(state).human # <<>>
    /\ pending_actions(state).bot # <<>>
    /\ CopiesIn("quest_resolved", store) > 0

\* The documented table of team sizes: player count, then quest 1 to 5.
DocumentedSizes(n) ==
    CASE n = 5 -> <<2, 3, 2, 3, 3>>
      [] n = 6 -> <<2, 3, 4, 3, 4>>
      [] n = 7 -> <<2, 3, 3, 4, 4>>
      [] n \in {8, 9, 10} -> <<3, 4, 4, 5, 5>>

\* C34: team_size returns the documented value for every player count from 5
\* to 10 and every quest from 1 to 5, and raises the configuration error
\* "Unsupported player count" for every other player count, whatever the
\* quest.
C34_TeamSizeTable ==
    \A t \in Tasks :
        LET n == tasks[t].call[1]
            q == tasks[t].call[2]
        IN  tasks[t].pc = "returned" =>
               /\ (n \in 5..10 /\ q \in 1..5) =>
                      /\ tasks[t].err = None
                      /\ tasks[t].result = DocumentedSizes(n)[q]
               /\ n \notin 5..10 => tasks[t].err = "Unsupported player count"

\* Two lookups made: the third quest of six players, and the same quest of
\* eleven.
C34_Witness ==
    /\ tasks["t1"].pc = "returned" /\ tasks["t1"].call = <<6, 3>>
    /\ tasks["t1"].result = 4
    /\ tasks["t2"].pc = "returned" /\ tasks["t2"].call = <<11, 3>>
    /\ tasks["t2"].err # None

\* C35: with the hammer rule enabled every started game reaches game_over,
\* provided a player pending_actions lists is never kept for ever from sending
\* an action the engine accepts; votes sent again, chat and refused calls do
\* not count.
C35_GameEnds ==
    (Created /\ state.started /\ state.config.hammer_auto_approve)
        ~> (state.phase = "game_over")

\* The non-chat calls of a player that the engine accepts in a state.
AcceptedCalls(s, st, pid) ==
    {c \in Calls(s) : c[1] = pid /\ c[2] # "chat" /\ Act(s, st, c).err = None}

\* C36: the engine never deadlocks.  In every state of a started game that is
\* not over pending_actions lists at least one player, and every player it
\* lists has a non-chat action the engine accepts in that state.
C36_NoDeadlock ==
    (Created /\ state.started /\ state.phase # "game_over") =>
        /\ PendingIds(state) # {}
        /\ \A pid \in PendingIds(state) : AcceptedCalls(state, store, pid) # {}


----------------------------------------------------------------------------
(* Supported player counts.                                                *)

\* C39: every created game has between 5 and 10 players, an explicit role
\* list included, and no propose_team of a started game is refused with the
\* unsupported-player-count error.
C39_SupportedCounts ==
    Created =>
        /\ state.config.player_count \in 5..10
        /\ state.started =>
               \A c \in Calls(state) :
                   c[2] = "propose_team" =>
                       Act(state, store, c).err # "Unsupported player count"

----------------------------------------------------------------------------
(* The round number and the history of resolved quests.                    *)

\* The history q with nothing changed and at most one record added.
Extends(q, before) ==
    /\ Len(q) \in {Len(before), Len(before) + 1}
    /\ SubSeq(q, 1, Len(before)) = before

----------------------------------------------------------------------------
(* The end of the game.                                                    *)

\* C38: game_over is terminal.  Once the phase is game_over every call other
\* than chat (propose_team, vote_team, quest_vote, lady_peek, assassinate, an
\* unknown action) raises and leaves the state and the log as they are, start
\* returns without changing either, and an accepted chat message changes the
\* transcript alone and appends one chat event.
C38_GameOverTerminal ==
    (Created /\ state.phase = "game_over") =>
        /\ \A deal \in Deals(state) :
               LET r == start_game(state, store, deal)
               IN  r.state = state /\ r.store = store
        /\ \A c \in Calls(state) :
               LET r == Act(state, store, c)
               IN  IF c[2] = "chat" /\ r.err = None
                   THEN /\ r.state = [state EXCEPT !.chat = r.state.chat]
                        /\ Len(r.state.chat) = Len(state.chat) + 1
                        /\ r.store = emit(store, "chat")
                   ELSE /\ r.err # None
                        /\ r.state = state
                        /\ r.store = store

\* A game the Assassin has ended, with a transcript, in which a further chat
\* message is still accepted.
C38_Witness ==
    /\ Created
    /\ state.phase = "game_over"
    /\ state.assassin_target # None
    /\ state.chat # <<>>
    /\ \E c \in Calls(state) : c[2] = "chat" /\ Act(state, store, c).err = None

----------------------------------------------------------------------------
(* The automated Assassin.                                                 *)

\* Turns of the automated Assassin that the policy is asked for in a row.
MaxBotTurns == 3

\* The Assassin pending_actions lists in the assassination phase.
AssassinId(s) == Head(awaited(s))

\* The states in which at most k turns of the Assassin, each applying a
\* decision of the policy, can leave the game; the turns stop when the phase
\* is no longer assassination.
RECURSIVE BotTurns(_, _, _)
BotTurns(s, st, k) ==
    IF k = 0 \/ s.phase # "assassination" \/ awaited(s) = <<>> THEN {s}
    ELSE UNION {LET r == apply_action(s, st, AssassinId(s), d.action_type, d.payload)
                IN  BotTurns(r.state, r.store, k - 1) :
                   d \in heuristic(s, get_player(s, AssassinId(s)))}

\* C40: when the Assassin awaited in the assassination phase is automated,
\* applying the policy's decision for it again and again (up to MaxBotTurns
\* times) ends the game, whoever else is evil: the phase is game_over and the
\* target named is another player.
C40_BotAssassinEnds ==
    (/\ Created
     /\ state.phase = "assassination"
     /\ pending_actions(state).bot # <<>>) =>
        \A s2 \in BotTurns(state, store, MaxBotTurns) :
            /\ s2.phase = "game_over"
            /\ s2.assassin_target \in PlayerIds(state) \ {AssassinId(state)}

====
